---- MODULE Spec2Model ----
(***************************************************************************)
(* Verification model of the KeyWave authentication engine of neuropack    *)
(* (src/code/neuropack/neuropack/__init__.py) and of the data it owns.     *)
(*                                                                         *)
(* Time is an integer wall clock `now`; time() reads it.  The EEG device   *)
(* and the acquisition task are external collaborators: their state is     *)
(* changed by environment actions, and values that the engine only polls   *)
(* (is_connected, has_data, is_alive, aborted, the task's recorded         *)
(* timings) are chosen when they are read.                                 *)
(* Similarity scores are exact rationals or NaN.                           *)
(***************************************************************************)
EXTENDS Integers, Sequences, FiniteSets, TLC

\* ------------------------------------------------------------------ bounds
MaxTime == 3          \* the clock runs 1..MaxTime and then stands still
MaxStim == 1          \* stimulus timings a task hands over in one run
MaxSamples == 1
\* The requests the browser makes in one run of the password manager.
MaxReq == 2
\* The templates one TemplateDatabase holds.
MaxTemplates == 2
\* The samples one EEGContainer is given.
MaxData == 2       \* samples drained into one recording
MaxScores == 2     \* similarity scores in one array
MaxTimings == 3    \* timings a task holds when the poll loop has ended
MaxRelayed == 3    \* requests the web handler relays

\* ------------------------------------------------------- program constants
before_event_time_ms == 200
after_event_time_ms == 800
sample_rate == 5
timeout_s == 1                  \* every call's timeout; the clock's unit

\* --------------------------------------------------------------- the values
None == "None"
Idents == {"", "a"}             \* identity strings; "" is a legal str
Feat == {0, 1}                  \* feature templates (abstract feature vectors)

AverageTemplate == 1
SingleTemplates == 2
AverageAndSingleTemplates == 3
TemplateMode == {AverageTemplate, SingleTemplates, AverageAndSingleTemplates}

BestSimilarity == 1
AverageSimilarity == 2
SimilarityMode == {BestSimilarity, AverageSimilarity}

template_mode == AverageTemplate        \* engine defaults
similarity_mode == AverageSimilarity

\* A float: NaN, or the rational num/den.
NaN == [nan |-> TRUE, num |-> 0, den |-> 1]
Rat(n, d) == [nan |-> FALSE, num |-> n, den |-> d]
IsNaN(x) == x.nan
\* Python's x < y on floats: false whenever one side is NaN.
FLt(x, y) == ~x.nan /\ ~y.nan /\ x.num * y.den < y.num * x.den
FGe(x, y) == ~x.nan /\ ~y.nan /\ x.num * y.den >= y.num * x.den
FAdd(x, y) ==
    IF x.nan \/ y.nan THEN NaN
    ELSE Rat(x.num * y.den + y.num * x.den, x.den * y.den)
FDivInt(x, k) == IF x.nan THEN NaN ELSE Rat(x.num, x.den * k)

default_threshold == Rat(1, 2)  \* the engine's default_threshold
Thresholds == {Rat(0, 1), Rat(1, 1)}    \* thresholds a caller supplies

\* An optional argument: not supplied (Python None) or supplied with a value.
NoArg == [given |-> FALSE, v |-> 0]
Arg(v) == [given |-> TRUE, v |-> v]
\* Python truthiness of an optional number / enum: None and 0 are falsy.
Truthy(a) == a.given /\ a.v # 0
\* "if not x: x = default"
OrDefault(a, d) == IF Truthy(a) THEN a.v ELSE d
\* "if not threshold: threshold = self.default_threshold"; 0.0 is falsy.
NoThreshold == [given |-> FALSE, v |-> Rat(0, 1)]
ThresholdOrDefault(a, d) == IF a.given /\ a.v.num # 0 THEN a.v ELSE d
ThresholdArgs == {NoThreshold} \cup {Arg(t) : t \in Thresholds}
\* A mode left out is replaced by the engine default, so the default is
\* selected by leaving the argument out.
TemplateModeArgs == {NoArg} \cup {Arg(m) : m \in TemplateMode \ {template_mode}}
SimilarityModeArgs ==
    {NoArg} \cup {Arg(m) : m \in SimilarityMode \ {similarity_mode}}
\* The application enrols with the engine's default mode (enroll(id)).
EnrollModeArgs == {NoArg}

\* ------------------------------------------------------ TemplateDatabase
\* internal_data is a Python dict: a sequence of (key, list) entries in
\* insertion order with unique keys.
get_all_idents(db) == [i \in 1..Len(db) |-> db[i].id]
InDb_Always(db, id) == TRUE
InDb(db, id) == \E i \in 1..Len(db) : db[i].id = id
IndexOf(db, id) == CHOOSE i \in 1..Len(db) : db[i].id = id

get_templates(db, id) ==
    IF ~InDb(db, id) THEN [found |-> FALSE, templates |-> <<>>]
    ELSE [found |-> TRUE, templates |-> db[IndexOf(db, id)].templates]

add_template_Front(db, id, t) ==
    LET d1 == IF ~InDb(db, id)
              THEN Append(db, [id |-> id, templates |-> <<>>])
              ELSE db
        i == IndexOf(d1, id)
    IN [d1 EXCEPT ![i].templates = <<t>> \o @]
add_template(db, id, t) ==
    LET d1 == IF ~InDb(db, id)
              THEN Append(db, [id |-> id, templates |-> <<>>])
              ELSE db
        i == IndexOf(d1, id)
    IN [d1 EXCEPT ![i].templates = Append(@, t)]

RECURSIVE add_templates(_, _, _)
add_templates(db, id, ts) ==
    IF ts = <<>> THEN db
    ELSE add_templates(add_template(db, id, Head(ts)), id, Tail(ts))

remove_identity_Empties(db, id) ==
    IF InDb(db, id) THEN [db EXCEPT ![IndexOf(db, id)].templates = <<>>] ELSE db
remove_identity_All(db, id) == IF InDb(db, id) THEN <<>> ELSE db
remove_identity(db, id) ==
    IF InDb(db, id)
    THEN LET i == IndexOf(db, id)
         IN SubSeq(db, 1, i - 1) \o SubSeq(db, i + 1, Len(db))
    ELSE db

\* ------------------------------------------------------ similarity metric
\* The pluggable metric, here: the zero vector 0 has no direction (NaN
\* against itself), equal templates score 1.0 and different ones 0.0.
similarity_metric(st, t) ==
    IF st = 0 /\ t = 0 THEN NaN
    ELSE IF st = t THEN Rat(1, 1) ELSE Rat(0, 1)

\* Python's sum(): left fold of + starting at 0.
RECURSIVE PySumFrom(_, _)
PySumFrom(acc, s) ==
    IF s = <<>> THEN acc ELSE PySumFrom(FAdd(acc, Head(s)), Tail(s))
PySum(s) == PySumFrom(Rat(0, 1), s)

\* Python's max(): keeps the first item unless a later one is greater.
RECURSIVE PyMaxFrom(_, _)
PyMaxFrom(m, s) ==
    IF s = <<>> THEN m
    ELSE PyMaxFrom(IF FLt(m, Head(s)) THEN Head(s) ELSE m, Tail(s))
PyMax(s) == PyMaxFrom(Head(s), Tail(s))

Reverse(s) == [i \in 1..Len(s) |-> s[Len(s) + 1 - i]]

\* list.sort(key = similarity, reverse = True) as CPython does it for short
\* lists: reverse, find the leading run, binary insertion of the rest,
\* reverse again.  KeyLt compares the similarity of two (id, sim) entries.
KeyLt(x, y) == FLt(x.sim, y.sim)

RECURSIVE RunEnd(_, _, _)
\* last index of the run that starts at 1 and has reached index i
RunEnd(s, i, descending) ==
    IF i = Len(s) THEN i
    ELSE IF descending
         THEN IF KeyLt(s[i + 1], s[i]) THEN RunEnd(s, i + 1, descending) ELSE i
         ELSE IF KeyLt(s[i + 1], s[i]) THEN i ELSE RunEnd(s, i + 1, descending)

RECURSIVE BinSearch(_, _, _, _)
\* position at which pivot is inserted into the sorted s[1..r-1], l <= r
BinSearch(s, pivot, l, r) ==
    IF l >= r THEN l
    ELSE LET p == l + ((r - l) \div 2)
         IN IF KeyLt(pivot, s[p]) THEN BinSearch(s, pivot, l, p)
            ELSE BinSearch(s, pivot, p + 1, r)

RECURSIVE BinarySort(_, _)
\* s[1..start-1] is sorted; insert s[start..] one by one
BinarySort(s, start) ==
    IF start > Len(s) THEN s
    ELSE LET pivot == s[start]
             l == BinSearch(s, pivot, 1, start)
             moved == SubSeq(s, 1, l - 1) \o <<pivot>> \o SubSeq(s, l, start - 1)
                      \o SubSeq(s, start + 1, Len(s))
         IN BinarySort(moved, start + 1)

SortAscending(s) ==
    IF Len(s) < 2 THEN s
    ELSE LET descending == KeyLt(s[2], s[1])
             n == RunEnd(s, 2, descending)
             s1 == IF descending
                   THEN Reverse(SubSeq(s, 1, n)) \o SubSeq(s, n + 1, Len(s))
                   ELSE s
         IN BinarySort(s1, n + 1)

SortBySimilarityDesc(s) == Reverse(SortAscending(Reverse(s)))

\* KeyWave.__calculate_similarity
Falsy(id) == id = None \/ id = ""

\* One evaluation for each stored template, against the template built first.
SimsOf_FirstFresh(stored, templates) ==
    [k \in 1..Len(stored) |-> similarity_metric(stored[k], templates[1])]
SimsOf(stored, templates) ==
    [k \in 1..(Len(stored) * Len(templates)) |->
        similarity_metric(stored[((k - 1) \div Len(templates)) + 1],
                          templates[((k - 1) % Len(templates)) + 1])]

Aggregate(sims, mode) ==
    IF mode = AverageSimilarity THEN FDivInt(PySum(sims), Len(sims))
    ELSE PyMax(sims)

RECURSIVE GlobalSims(_, _, _, _)
GlobalSims(db, ids, templates, mode) ==
    IF ids = <<>> THEN <<>>
    ELSE LET st == get_templates(db, Head(ids))
             rest == GlobalSims(db, Tail(ids), templates, mode)
         IN IF ~st.found \/ st.templates = <<>> THEN rest
            ELSE <<[id |-> Head(ids),
                    sim |-> Aggregate(SimsOf(st.templates, templates), mode)]>>
                 \o rest

calculate_similarity(db, templates, mode, id) ==
    LET ids == IF Falsy(id) THEN get_all_idents(db) ELSE <<id>>
    IN SortBySimilarityDesc(GlobalSims(db, ids, templates, mode))


\* ------------------------------------------------------- EEGContainer
\* EEGContainer.__find_closest_timestamp: numpy argmin of |timestamps - t|,
\* the first index of the minimum (0-based in the code, 1-based here).
AbsDiff(x, y) == IF x >= y THEN x - y ELSE y - x
find_closest_timestamp(ts, t) ==
    CHOOSE i \in 1..Len(ts) :
        /\ \A j \in 1..Len(ts) : AbsDiff(ts[i], t) <= AbsDiff(ts[j], t)
        /\ \A j \in 1..(i - 1) : AbsDiff(ts[j], t) > AbsDiff(ts[i], t)

\* EEGContainer.add_event: the length of the epoch cut around event_time.
\* `event` is the 0-based index the code works with.
EpochLen(ts, event_time, before, after) ==
    LET event == find_closest_timestamp(ts, event_time) - 1
        b0 == (before * sample_rate) \div 1000
        lo == IF event - b0 > 0 THEN event - b0 ELSE 0
        a0 == ((after * sample_rate) \div 1000) + 1
        hi == IF event + a0 < Len(ts) THEN event + a0 ELSE Len(ts)
    IN IF hi > lo THEN hi - lo ELSE 0

\* ------------------------------------------------- __perform_task_rec
\* The drain of the task's timings after the poll loop: items are taken
\* while the task reports alive (the first aliveFor fetches) and until one
\* lies after stop_time; the target timings taken so far are kept.
RECURSIVE DrainTimings(_, _, _)
DrainTimings(q, stop_time, aliveFor) ==
    IF q = <<>> THEN <<>>
    ELSE IF Head(q).timestamp > stop_time \/ aliveFor = 0 THEN <<>>
    ELSE (IF Head(q).is_target THEN <<Head(q).timestamp>> ELSE <<>>)
         \o DrainTimings(Tail(q), stop_time, aliveFor - 1)

\* "while len(events[0]) != len(events[-1]): events = events[:-1]"
\* A trimming that gives up on a list whose epochs differ in length.
TrimTail_ToEmpty(ev) ==
    IF \A i, j \in 1..Len(ev) : ev[i] = ev[j] THEN ev ELSE <<>>
RECURSIVE TrimTail(_)
TrimTail(ev) ==
    IF ev[1] # ev[Len(ev)] THEN TrimTail(SubSeq(ev, 1, Len(ev) - 1)) ELSE ev

EpochsOf(ts, stimuli_times) ==
    [k \in 1..Len(stimuli_times) |->
        EpochLen(ts, stimuli_times[k], before_event_time_ms, after_event_time_ms)]

\* The timings a task started at `from` can hand over by `to`: at most
\* MaxStim, in time order, the last ones possibly recorded after `to`.
Timing(from, to) == [timestamp : from..(to + 1), is_target : BOOLEAN]
TaskData(from, to) ==
    {q \in UNION {[1..n -> Timing(from, to)] : n \in 0..MaxStim} :
        \A i \in 1..(Len(q) - 1) : q[i].timestamp <= q[i + 1].timestamp}

\* ------------------------------------------------- __create_templates
TemplateCount(n, mode) ==
    (IF mode \in {AverageAndSingleTemplates, AverageTemplate} THEN 1 ELSE 0)
    + (IF mode \in {SingleTemplates, AverageAndSingleTemplates} THEN n ELSE 0)

\* osum(events) adds the epochs with EventContainer.__add__, which asserts
\* that the operands have the same length.
OsumRaises(ev) == \E i \in 1..Len(ev) : ev[i] # ev[1]
CreateRaises(ev, mode) ==
    mode \in {AverageAndSingleTemplates, AverageTemplate} /\ OsumRaises(ev)

\* The feature vectors extract_features can return for these epochs.
create_templates(ev, mode) == [1..TemplateCount(Len(ev), mode) -> Feat]

\* The list __create_templates builds from n epochs, each template named by
\* what extract_features was given: 0 the average of the epochs, k the k-th
\* epoch.
TemplateOrigins(n, mode) ==
    (IF mode \in {AverageAndSingleTemplates, AverageTemplate}
     THEN <<0>> ELSE <<>>)
    \o (IF mode \in {SingleTemplates, AverageAndSingleTemplates}
        THEN [k \in 1..n |-> k] ELSE <<>>)

\* =================================================================== state
VARIABLES
    now,                 \* wall clock, read by time()
    worn,                \* device.is_worn()
    removal_time_stamp,  \* device.removal_time_stamp
    database,            \* KeyWave.database.internal_data
    last_auth,           \* KeyWave.last_auth
    last_id,             \* KeyWave.last_id
    pc,                  \* where the engine's caller is: idle, poll, process
    call,                \* the call in progress
    start,               \* __perform_task_rec: start
    timestamps,          \* __perform_task_rec: eeg_container.timestamps
    events,              \* the epochs __perform_task_rec returned (lengths)
    ret,                 \* the call that has just returned, for observation
    \* fpm: the browser worker and what it shares with the application
    settings,            \* SettingsContainer.container and .verification_system
    vault,               \* EncryptedDatabase: connected, data
    inbox,               \* messages the web handler sent and run() has not received
    nreq,                \* the requests the browser has made so far
    worker,              \* BrowserWorker: where it is and its locals
    reply,               \* what the worker has just sent, for observation
    \* a TemplateDatabase in the hands of an application
    tdb,                 \* TemplateDatabase.internal_data of the instance held
    tlog,                \* per identity: the templates handed in, in order
    tret,                \* the operation that has just returned, for observation
    \* an EEGContainer in the hands of an application
    eeg,                 \* EEGContainer: channel_names, sample_rate, timestamps, signals, events
    eret,                \* the call that has just returned, for observation
    \* benchmarking: an array of similarity scores and a rate computed on it
    scores,              \* p_sims or n_sims
    mret,                \* the call that has just returned, for observation
    \* __perform_task_rec after the poll loop, by itself
    drain,               \* what it is given and what it did, for observation
    \* __calculate_similarity, by itself
    sret,                \* the call that has just returned, for observation
    \* fpm: the pipe between WebHandler.index and BrowserWorker.run, by itself
    relay                \* the pipe's two directions, the handlers and the worker

engine == <<now, worn, removal_time_stamp, database, last_auth, last_id, pc,
            call, start, timestamps, events, ret>>
browser == <<settings, vault, inbox, nreq, worker, reply>>
store == <<tdb, tlog, tret>>
holder == <<eeg, eret>>
bench == <<scores, mret>>
vars == <<engine, browser, store, holder, bench, drain, sret, relay>>

\* What a step of one component leaves alone.
outsideEngine == <<browser, store, holder, bench, drain, sret, relay>>
outsideBrowser == <<engine, store, holder, bench, drain, sret, relay>>
outsideStore == <<engine, browser, holder, bench, drain, sret, relay>>
outsideHolder == <<engine, browser, store, bench, drain, sret, relay>>
outsideBench == <<engine, browser, store, holder, drain, sret, relay>>
outsideDrain == <<engine, browser, store, holder, bench, sret, relay>>
outsideScoring == <<engine, browser, store, holder, bench, drain, relay>>
outsideRelay == <<engine, browser, store, holder, bench, drain, sret>>

device == <<worn, removal_time_stamp>>
session == <<last_auth, last_id>>
recording == <<start, timestamps, events>>

\* call: the call in progress; stamped tells that the driver stamped a removal
\* after the end of its recording (kept for the calls that open a session).
NoCall == [op |-> "none", id |-> None, stamped |-> FALSE]
NoPrev == [op |-> "none", id |-> None]
\* ret: op, id, cont are the call; ok and who its result; exc: an exception
\* left the call; fast: it returned without the acquisition procedure;
\* stream: the device stream was left started; why: the branch that returned;
\* given, thr: the threshold supplied and the one in force; sims: the list
\* __calculate_similarity returned to the call;
\* prev: the successful call that returned immediately before this one;
\* stamped: a removal was stamped between the end of the call's recording and
\* its return.
NoRet ==
    [op |-> "none", id |-> None, cont |-> FALSE, ok |-> FALSE, who |-> None,
     exc |-> FALSE, fast |-> FALSE, stream |-> FALSE, why |-> "none",
     given |-> NoThreshold, thr |-> Rat(0, 1), sims |-> <<>>, prev |-> NoPrev,
     stamped |-> FALSE]
PrevOf(r) ==
    IF r.ok
    THEN [op |-> r.op, id |-> IF r.op = "identification" THEN r.who ELSE r.id]
    ELSE NoPrev

\* A return without acquisition (made in the step of the call itself).
FastRet(op, id, cont, ok, who, why) ==
    [NoRet EXCEPT !.op = op, !.id = id, !.cont = cont, !.ok = ok, !.who = who,
                  !.fast = TRUE, !.why = why, !.prev = PrevOf(ret)]
\* A return after the acquisition procedure ran.
SlowRet(ok, who, why) ==
    [NoRet EXCEPT !.op = call.op, !.id = call.id, !.ok = ok, !.who = who,
                  !.why = why, !.stamped = call.stamped]

\* The databases the constructor can be handed: what earlier sessions
\* enrolled with the default mode, one template for an identity.
StoredEntry == [id : Idents, templates : [1..1 -> Feat]]
InitDatabases ==
    {db \in UNION {[1..n -> StoredEntry] : n \in 0..Cardinality(Idents)} :
        \A i, j \in 1..Len(db) : db[i].id = db[j].id => i = j}

\* KeyWave.__init__ with a database from dbs.
EngineStarts(dbs) ==
    /\ now = 1
    /\ worn = FALSE
    /\ removal_time_stamp = 0
    /\ database \in dbs
    /\ last_auth = 0
    /\ last_id = None
    /\ pc = "idle"
    /\ call = NoCall
    /\ start = 0
    /\ timestamps = <<>>
    /\ events = <<>>
    /\ ret = NoRet

\* -------------------------------------------------- fpm: values and start
\* Strings the worker takes apart are sequences of characters.
www == <<"w", "w", "w", ".">>
StartsWith(s, prefix) ==
    Len(s) >= Len(prefix) /\ SubSeq(s, 1, Len(prefix)) = prefix
EndsWith(s, suffix) ==
    Len(s) >= Len(suffix)
        /\ SubSeq(s, Len(s) - Len(suffix) + 1, Len(s)) = suffix

\* The vault's entries: domain, username, password.
Entry(d, u, p) == [domain |-> d, username |-> u, password |-> p]
VaultContents ==
    {<<Entry(<<"a">>, "u1", "p1")>>,
     <<Entry(<<"b", "a">>, "u2", "p2"), Entry(<<"a">>, "u1", "p1")>>}
NoVault == [connected |-> FALSE, data |-> <<>>]

\* What json.loads can hand to process_msg: something that is no dict, a
\* dict without "type", and dicts with a type, with or without "domain".
NoDomain == <<None>>
Msg(isdict, type, domain) == [isdict |-> isdict, type |-> type, domain |-> domain]
Messages ==
    {Msg(FALSE, None, NoDomain), Msg(TRUE, None, NoDomain),
     Msg(TRUE, "other", <<"a">>), Msg(TRUE, "check", <<"a">>),
     Msg(TRUE, "auth", NoDomain), Msg(TRUE, "auth", <<"a">>),
     Msg(TRUE, "auth", www \o <<"a">>), Msg(TRUE, "auth", <<"c">>)}

\* SettingsContainer.format_description: the defaults.
DefaultSettings ==
    [browser_support |-> TRUE, plugin_auth |-> TRUE, continuous_auth |-> TRUE,
     id |-> "a", verification_system |-> TRUE]
SettingsValues ==
    [browser_support : BOOLEAN, plugin_auth : BOOLEAN,
     continuous_auth : BOOLEAN, id : Idents, verification_system : BOOLEAN]

\* The worker's locals. req, msg: the request in hand; auth: the local of
\* process_auth. For observation: saw_support, saw_connected: what line 66
\* read; plugin, cfg_id, cfg_cont: the settings when process_auth reached
\* line 147; asked, arg_id, arg_cont: the call of authenticate made for this
\* request and its arguments; result: what that call returned.
IdleWorker ==
    [pc |-> "idle", req |-> 0, msg |-> Msg(FALSE, None, NoDomain), auth |-> FALSE,
     saw_support |-> FALSE, saw_connected |-> FALSE, plugin |-> FALSE,
     cfg_id |-> None, cfg_cont |-> FALSE, asked |-> FALSE, arg_id |-> None,
     arg_cont |-> FALSE, result |-> FALSE]
\* An answer: the dict handed to outside.send; the keys it lacks are None.
Answer(type) ==
    [type |-> type, username |-> None, password |-> None, is_present |-> None]
NoReply == [req |-> 0, answer |-> Answer(None), by |-> IdleWorker]

BrowserStarts ==
    /\ settings \in SettingsValues
    /\ vault \in {NoVault} \cup {[connected |-> TRUE, data |-> d] : d \in VaultContents}
    /\ inbox = <<>>
    /\ nreq = 0
    /\ worker = IdleWorker
    /\ reply = NoReply
\* The engine on its own: no password manager around it.
BrowserAbsent ==
    /\ settings = DefaultSettings
    /\ vault = NoVault
    /\ inbox = <<>>
    /\ nreq = 0
    /\ worker = IdleWorker
    /\ reply = NoReply

\* ------------------------------------- TemplateDatabase: values and start
\* Equality of floats: NaN equals nothing.
FEq(x, y) == ~x.nan /\ ~y.nan /\ x.num * y.den = y.num * x.den

\* Python numbers: an int or a float of value v.
PyInt(n) == [type |-> "int", v |-> Rat(n, 1)]
PyFloat(x) == [type |-> "float", v |-> x]

\* numpy arrays of no or one dimension: ndim 0 holds one item.
Array(dtype, ndim, data) == [dtype |-> dtype, ndim |-> ndim, data |-> data]
\* The templates handed to add_template.
Arrays ==
    {Array("int64", 1, <<Rat(1, 1)>>), Array("float64", 1, <<Rat(1, 2)>>),
     Array("float32", 1, <<Rat(1, 2)>>), Array("float64", 1, <<NaN>>)}

\* np.array_equal(a, b): same shape and all items equal.
array_equal(a, b) ==
    /\ a.ndim = b.ndim
    /\ Len(a.data) = Len(b.data)
    /\ \A i \in 1..Len(a.data) : FEq(a.data[i], b.data[i])

\* JSON text by its syntax tree: kind is bad (no JSON at all), num, str, arr
\* or obj; an obj has keys and, in the same order, their values in items.
\* A number literal keeps its decimal point, so loads returns the int or
\* float that dumps was given; dumps writes NaN as NaN and loads reads it.
JBad == [kind |-> "bad", num |-> PyInt(0), keys |-> <<>>, items |-> <<>>]
JNum(n) == [kind |-> "num", num |-> n, keys |-> <<>>, items |-> <<>>]
JStr == [kind |-> "str", num |-> PyInt(0), keys |-> <<>>, items |-> <<>>]
JArr(items) == [kind |-> "arr", num |-> PyInt(0), keys |-> <<>>, items |-> items]
JObj(keys, items) == [kind |-> "obj", num |-> PyInt(0), keys |-> keys, items |-> items]

\* ndarray.tolist() and then dumps: the items as Python ints or floats.
PyNumber(dtype, x) == IF dtype = "int64" THEN PyInt(x.num) ELSE PyFloat(x)
tolist(a) ==
    IF a.ndim = 0 THEN JNum(PyNumber(a.dtype, a.data[1]))
    ELSE JArr([i \in 1..Len(a.data) |-> JNum(PyNumber(a.dtype, a.data[i]))])

\* np.array(t) of what loads returned: a number gives a 0-d array, a list of
\* numbers a 1-d array, int64 when all are ints (and there is one), else
\* float64.
IsNumbers(items) == \A i \in 1..Len(items) : items[i].kind = "num"
InferDtype(items) ==
    IF items # <<>> /\ \A i \in 1..Len(items) : items[i].num.type = "int"
    THEN "int64" ELSE "float64"
np_array(t) ==
    CASE t.kind = "num" ->
            Array(InferDtype(<<t>>), 0, <<t.num.v>>)
      [] t.kind = "arr" /\ IsNumbers(t.items) ->
            Array(InferDtype(t.items), 1,
                  [i \in 1..Len(t.items) |-> t.items[i].num.v])

\* TemplateDatabase.to_json.
to_json(db) ==
    JObj([i \in 1..Len(db) |-> db[i].id],
         [i \in 1..Len(db) |->
             JArr([n \in 1..Len(db[i].templates) |-> tolist(db[i].templates[n])])])

\* A classmethod's outcome: ok and the instance, or the exception.
Built(db) == [ok |-> TRUE, db |-> db]
Raised == [ok |-> FALSE, db |-> <<>>]

\* construct_from_json: the loop over d.items(), from member i on.
RECURSIVE FromJsonItems(_, _, _)
FromJsonItems(db, j, i) ==
    IF i > Len(j.keys) THEN Built(db)
    ELSE IF j.items[i].kind # "arr" THEN Raised
    ELSE FromJsonItems(
            add_templates(db, j.keys[i],
                [n \in 1..Len(j.items[i].items) |-> np_array(j.items[i].items[n])]),
            j, i + 1)
\* TemplateDatabase.construct_from_json: loads raises on what is no JSON,
\* d.items() on what is no object.
construct_from_json(j) ==
    IF j.kind # "obj" THEN Raised ELSE FromJsonItems(<<>>, j, 1)

\* What construct_from_dict is handed: a dict (or not), its keys strings (or
\* not), its values lists (or not).
Item(key, isstr, islist, templates) ==
    [key |-> key, isstr |-> isstr, islist |-> islist, templates |-> templates]
Dict(isdict, items) == [isdict |-> isdict, items |-> items]
T1 == Array("int64", 1, <<Rat(1, 1)>>)
T2 == Array("float64", 1, <<Rat(1, 2)>>)
DictInputs ==
    {Dict(FALSE, <<>>), Dict(TRUE, <<>>),
     Dict(TRUE, <<Item("a", TRUE, TRUE, <<T1, T2>>)>>),
     Dict(TRUE, <<Item("a", TRUE, TRUE, <<T2>>), Item("", TRUE, TRUE, <<T1>>)>>),
     Dict(TRUE, <<Item("a", TRUE, TRUE, <<>>)>>),
     Dict(TRUE, <<Item("", TRUE, TRUE, <<T1>>), Item("a", TRUE, TRUE, <<>>)>>),
     Dict(TRUE, <<Item("a", FALSE, TRUE, <<T1>>)>>),
     Dict(TRUE, <<Item("a", TRUE, TRUE, <<T1>>), Item("", TRUE, FALSE, <<T2>>)>>)}

RECURSIVE FromDictItems(_, _, _)
FromDictItems(db, data, i) ==
    IF i > Len(data.items) THEN Built(db)
    ELSE IF ~data.items[i].isstr \/ ~data.items[i].islist THEN Raised
    ELSE FromDictItems(add_templates(db, data.items[i].key, data.items[i].templates),
                       data, i + 1)
\* TemplateDatabase.construct_from_dict.
construct_from_dict(data) ==
    IF ~data.isdict THEN Raised ELSE FromDictItems(<<>>, data, 1)

\* TemplateDatabase.__eq__.
db_eq(self, other) ==
    /\ Len(self) = Len(other)
    /\ \A i \in 1..Len(self) :
          /\ InDb(other, self[i].id)
          /\ LET v == self[i].templates
                 v_other == other[IndexOf(other, self[i].id)].templates
             IN  /\ Len(v) = Len(v_other)
                 /\ \A n \in 1..Len(v) : array_equal(v[n], v_other[n])

\* The persisted TEMPLATES field a login can find.
J1 == JNum(PyInt(1))
JHalf == JNum(PyFloat(Rat(1, 2)))
JsonInputs ==
    {JBad, J1, JStr, JArr(<<J1>>), JObj(<<>>, <<>>),
     JObj(<<"a">>, <<J1>>), JObj(<<"a">>, <<JStr>>),
     JObj(<<"a">>, <<JArr(<<JArr(<<J1>>)>>)>>),
     JObj(<<"a">>, <<JArr(<<>>)>>),
     JObj(<<"a", "">>, <<JArr(<<JArr(<<JHalf, J1>>)>>), JArr(<<JArr(<<>>)>>)>>),
     JObj(<<"a", "">>, <<JArr(<<JArr(<<J1>>)>>), J1>>),
     JObj(<<"a">>, <<JArr(<<J1>>)>>),
     JObj(<<"a">>, <<JArr(<<JArr(<<J1>>), JHalf>>)>>)}

NoLog == [id \in Idents |-> <<>>]
\* tret: op and id are the call; ok: no exception left it; found, templates:
\* what get_templates returned; before: internal_data when the call was
\* made; data, json: what a constructor was handed; back, eq: the instance
\* construct_from_json(to_json()) gave and what == said of it.
NoDbRet ==
    [op |-> "none", id |-> None, ok |-> TRUE, found |-> FALSE, templates |-> <<>>,
     before |-> <<>>, data |-> Dict(FALSE, <<>>), json |-> JBad, back |-> <<>>,
     eq |-> FALSE]

\* TemplateDatabase() or one the engine starts with.
StoreStarts ==
    /\ tdb \in {<<>>, <<[id |-> "a", templates |-> <<T1>>]>>}
    /\ tlog = [id \in Idents |-> get_templates(tdb, id).templates]
    /\ tret = NoDbRet
StoreAbsent ==
    /\ tdb = <<>>
    /\ tlog = NoLog
    /\ tret = NoDbRet

\* ----------------------------------------- EEGContainer: values and start
\* BCISignal: a time stamp and the values measured at it.
BCISignal(timestamp, signals) == [timestamp |-> timestamp, signals |-> signals]
Signals == {<<0>>, <<1>>, <<0, 1>>, <<1, 1>>, <<0, 1, 1>>}
Stamps == {1, 3}
Samples == {BCISignal(t, v) : t \in Stamps, v \in Signals}

\* EEGContainer.__init__: one empty list for each channel, no events.
EEGContainer(channel_names) ==
    [channel_names |-> channel_names, sample_rate |-> sample_rate,
     timestamps |-> <<>>,
     signals |-> [c \in 1..Len(channel_names) |-> <<>>], events |-> <<>>]
\* EventContainer.__init__.
EventContainer(channel_names, rate, signals, stamps) ==
    [channel_names |-> channel_names, sample_rate |-> rate,
     signals |-> signals, timestamps |-> stamps]

\* EEGContainer.add_data: ok and the container, or the exception and the
\* container as the call left it.
add_data_Late(self, rec) ==
    LET stamped == [self EXCEPT !.timestamps = Append(@, rec.timestamp)]
    IN  IF Len(rec.signals) # Len(self.channel_names)
        THEN [ok |-> FALSE, self |-> stamped]
        ELSE [ok |-> TRUE,
              self |-> [stamped EXCEPT !.signals =
                           [i \in 1..Len(rec.signals) |->
                               Append(self.signals[i], rec.signals[i])]]]
add_data(self, rec) ==
    IF Len(rec.signals) # Len(self.channel_names)
    THEN [ok |-> FALSE, self |-> self]
    ELSE [ok |-> TRUE,
          self |-> [self EXCEPT
                       !.timestamps = Append(@, rec.timestamp),
                       !.signals = [i \in 1..Len(rec.signals) |->
                                       Append(self.signals[i], rec.signals[i])]]]

Max(a, b) == IF a >= b THEN a ELSE b
Min(a, b) == IF a <= b THEN a ELSE b
InSeq(x, s) == \E i \in 1..Len(s) : s[i] = x
\* Python's s[lo:hi] for 0 <= lo.
Slice(s, lo, hi) == SubSeq(s, lo + 1, Min(hi, Len(s)))

\* The durations in milliseconds and the event times add_event is given.
Durations == {0, 300}
EventTimes == {2, 3}

\* EEGContainer.add_event: ok, the container as the call leaves it, the
\* epoch returned and the index `event` of the located sample (from 0);
\* argmin raises on a container without samples.
NoEpoch == EventContainer(<<>>, 0, <<>>, <<>>)
\* Lines 466-476: the epoch between two indices around the located sample.
EpochBetween(self, located, before_samples, after_samples) ==
    EventContainer(
        self.channel_names, self.sample_rate,
        [c \in 1..Len(self.signals) |->
            Slice(self.signals[c], before_samples, after_samples)],
        [k \in 1..Len(Slice(self.timestamps, before_samples, after_samples)) |->
            Slice(self.timestamps, before_samples, after_samples)[k] - located])
\* add_event without the + 1 of line 462.
add_event_Short(self, event_time, before, after) ==
    IF self.timestamps = <<>>
    THEN [ok |-> FALSE, self |-> self, epoch |-> NoEpoch, event |-> 0]
    ELSE
    LET event == find_closest_timestamp(self.timestamps, event_time) - 1
        located == self.timestamps[event + 1]
        before_samples == Max(event - (before * self.sample_rate) \div 1000, 0)
        after_samples ==
            Min(event + (after * self.sample_rate) \div 1000, Len(self.timestamps))
    IN  [ok |-> TRUE,
         self |-> [self EXCEPT !.events =
                      IF InSeq(located, @) THEN @ ELSE Append(@, located)],
         epoch |-> EpochBetween(self, located, before_samples, after_samples),
         event |-> event]
add_event(self, event_time, before, after) ==
    IF self.timestamps = <<>>
    THEN [ok |-> FALSE, self |-> self, epoch |-> NoEpoch, event |-> 0]
    ELSE
    LET event == find_closest_timestamp(self.timestamps, event_time) - 1
        located == self.timestamps[event + 1]
        before_samples == Max(event - (before * self.sample_rate) \div 1000, 0)
        after_samples ==
            Min(event + (after * self.sample_rate) \div 1000 + 1,
                Len(self.timestamps))
    IN  [ok |-> TRUE,
         self |-> [self EXCEPT !.events =
                      IF InSeq(located, @) THEN @ ELSE Append(@, located)],
         epoch |-> EpochBetween(self, located, before_samples, after_samples),
         event |-> event]

\* EEGContainer.get_all_events: the comprehension walks the live list
\* self.events, from its k-th element on, while add_event may append to it.
RECURSIVE get_all_events_From(_, _, _, _, _)
get_all_events_From(self, k, before, after, epochs) ==
    IF k > Len(self.events) THEN [ok |-> TRUE, self |-> self, epochs |-> epochs]
    ELSE LET r == add_event(self, self.events[k], before, after)
         IN  IF ~r.ok THEN [ok |-> FALSE, self |-> r.self, epochs |-> <<>>]
             ELSE get_all_events_From(r.self, k + 1, before, after,
                                      Append(epochs, r.epoch))
\* get_all_events handing the epochs back last event first.
get_all_events_Reversed(self, before, after) ==
    [get_all_events_From(self, 1, before, after, <<>>) EXCEPT
        !.epochs = [k \in 1..Len(@) |-> @[Len(@) + 1 - k]]]
get_all_events(self, before, after) ==
    get_all_events_From(self, 1, before, after, <<>>)

\* "".join(names).
RECURSIVE Join(_)
Join(names) == IF names = <<>> THEN "" ELSE Head(names) \o Join(Tail(names))
\* AbstractContainer.__getitem__ by name: the signal of the first channel of
\* that name; an unknown name raises.
HasChannel(self, ch) == InSeq(ch, self.channel_names)
GetItem(self, ch) ==
    self.signals[CHOOSE i \in 1..Len(self.channel_names) :
                    /\ self.channel_names[i] = ch
                    /\ \A j \in 1..(i - 1) : self.channel_names[j] # ch]
\* s_osum and osum of n signals of one length, item k: numpy adds them up
\* item by item.
RECURSIVE SumAt(_, _, _)
SumAt(x, k, n) ==
    IF n = 1 THEN Rat(x[1][k], 1) ELSE FAdd(SumAt(x, k, n - 1), Rat(x[n][k], 1))
s_osum(x) == [k \in 1..Len(x[1]) |-> SumAt(x, k, Len(x))]
osum(x) == [k \in 1..Len(x[1]) |-> SumAt(x, k, Len(x))]
\* array / n, item by item: always floats.
DivideBy(a, n) == [k \in 1..Len(a) |-> FDivInt(a[k], n)]
\* The averaging without the division.
AveragedGroup_Sum(self, selection) == s_osum([c \in 1..Len(selection) |-> GetItem(self, selection[c])])
\* One averaged channel: [self[ch] for ch in selection], summed and divided
\* by their number.
AveragedGroup(self, selection) ==
    DivideBy(s_osum([c \in 1..Len(selection) |-> GetItem(self, selection[c])]),
             Len(selection))
Averaged(self, groups) == [g \in 1..Len(groups) |-> AveragedGroup(self, groups[g])]
KnownChannels(self, groups) ==
    \A g \in 1..Len(groups) : \A c \in 1..Len(groups[g]) :
        HasChannel(self, groups[g][c])

\* EEGContainer.average_ch(*channel_selection): ok, the container the call
\* was made on as the call leaves it, and the container returned, whose
\* signals are floats. The container returned is a new EEGContainer that is
\* given the time stamps and the signals.
NoContainer == EEGContainer(<<>>)
average_ch(self, channel_selection) ==
    IF channel_selection = <<>>
    THEN [ok |-> TRUE, self |-> self,
          out |-> [EEGContainer(<<Join(self.channel_names)>>) EXCEPT
                      !.timestamps = self.timestamps,
                      !.signals = Averaged(self, <<self.channel_names>>)]]
    ELSE IF ~KnownChannels(self, <<channel_selection>>)
    THEN [ok |-> FALSE, self |-> self, out |-> NoContainer]
    ELSE [ok |-> TRUE, self |-> self,
          out |-> [EEGContainer(<<Join(channel_selection)>>) EXCEPT
                      !.timestamps = self.timestamps,
                      !.signals = Averaged(self, <<channel_selection>>)]]
\* EEGContainer.average_sub_ch(*channel_selection): a name by itself is a
\* group of one.
average_sub_ch(self, channel_selection) ==
    IF Len(channel_selection) = 0 THEN average_ch(self, <<>>)
    ELSE IF ~KnownChannels(self, channel_selection)
    THEN [ok |-> FALSE, self |-> self, out |-> NoContainer]
    ELSE [ok |-> TRUE, self |-> self,
          out |-> [EEGContainer([g \in 1..Len(channel_selection) |->
                                    Join(channel_selection[g])]) EXCEPT
                      !.timestamps = self.timestamps,
                      !.signals = Averaged(self, channel_selection)]]

\* EventContainer.average_ch and average_sub_ch: the same with osum, the
\* result an EventContainer.
OsumAveraged(self, groups) ==
    [g \in 1..Len(groups) |->
        DivideBy(osum([c \in 1..Len(groups[g]) |-> GetItem(self, groups[g][c])]),
                 Len(groups[g]))]
event_average_ch(self, channel_selection) ==
    IF channel_selection = <<>>
    THEN [ok |-> TRUE, self |-> self,
          out |-> EventContainer(<<Join(self.channel_names)>>, self.sample_rate,
                                 OsumAveraged(self, <<self.channel_names>>),
                                 self.timestamps)]
    ELSE IF ~KnownChannels(self, <<channel_selection>>)
    THEN [ok |-> FALSE, self |-> self, out |-> NoEpoch]
    ELSE [ok |-> TRUE, self |-> self,
          out |-> EventContainer(<<Join(channel_selection)>>, self.sample_rate,
                                 OsumAveraged(self, <<channel_selection>>),
                                 self.timestamps)]
event_average_sub_ch(self, channel_selection) ==
    IF Len(channel_selection) = 0 THEN event_average_ch(self, <<>>)
    ELSE IF ~KnownChannels(self, channel_selection)
    THEN [ok |-> FALSE, self |-> self, out |-> NoEpoch]
    ELSE [ok |-> TRUE, self |-> self,
          out |-> EventContainer([g \in 1..Len(channel_selection) |->
                                     Join(channel_selection[g])],
                                 self.sample_rate,
                                 OsumAveraged(self, channel_selection),
                                 self.timestamps)]

\* Python compares numbers by value: 1 == 1.0.
Floats(s) == [k \in 1..Len(s) |-> Rat(s[k], 1)]
SameNumbers(a, b) ==
    /\ Len(a) = Len(b)
    /\ \A k \in 1..Len(a) : FEq(a[k], b[k])
\* A container with its numbers by value, and an averaged one, whose signals
\* are by value already.
AsNumbers(c) ==
    [c EXCEPT !.timestamps = Floats(@), !.events = Floats(@),
              !.signals = [i \in 1..Len(@) |-> Floats(@[i])]]
StampsAsNumbers(c) == [c EXCEPT !.timestamps = Floats(@), !.events = Floats(@)]
\* EEGContainer.__eq__(self, other), both with their numbers by value.
eeg_eq(self, other) ==
    /\ self.channel_names = other.channel_names
    /\ self.sample_rate = other.sample_rate
    /\ SameNumbers(self.timestamps, other.timestamps)
    /\ SameNumbers(self.events, other.events)
    /\ Len(self.signals) = Len(other.signals)
    /\ \A i \in 1..Len(self.signals) :
          SameNumbers(self.signals[i], other.signals[i])

\* The text csv.writer writes for an int, and float() of such a text.
Str(n) == [numeral |-> n]
Float(text) == Rat(text.numeral, 1)
\* EEGContainer.save_signals: the rows below the header, each the time stamp,
\* one value for each channel and the marker, 1 when the time stamp is among
\* the events.
save_signals(self) ==
    [i \in 1..Len(self.timestamps) |->
        [timestamp |-> Str(self.timestamps[i]),
         signals |-> [c \in 1..Len(self.signals) |-> Str(self.signals[c][i])],
         marker |-> IF InSeq(self.timestamps[i], self.events) THEN "1" ELSE "0"]]
\* EEGContainer.load_signals: time stamps and signals start empty, events do
\* not; each row's time stamp and its first len(channel_names) values are
\* read as floats, a marked row's time stamp is appended to events and the
\* sample is added.
RECURSIVE load_rows(_, _, _)
load_rows(self, rows, i) ==
    IF i > Len(rows) THEN self
    ELSE LET line == rows[i]
             timestamp == Float(line.timestamp)
             signals == [c \in 1..Min(Len(self.channel_names), Len(line.signals)) |->
                            Float(line.signals[c])]
             marked == [self EXCEPT !.events =
                           IF line.marker = "1" THEN Append(@, timestamp) ELSE @]
         IN  load_rows([marked EXCEPT
                           !.timestamps = Append(@, timestamp),
                           !.signals = [c \in 1..Len(signals) |->
                                           Append(marked.signals[c], signals[c])]],
                       rows, i + 1)
load_signals(self, rows) ==
    load_rows([self EXCEPT !.timestamps = <<>>,
                           !.signals = [c \in 1..Len(self.channel_names) |-> <<>>]],
              rows, 1)

\* EventContainer.__eq__(self, other) where other holds averaged signals.
event_eq(self, other) ==
    /\ self.channel_names = other.channel_names
    /\ self.sample_rate = other.sample_rate
    /\ self.timestamps = other.timestamps
    /\ Len(self.signals) = Len(other.signals)
    /\ \A i \in 1..Len(self.signals) :
          SameNumbers(Floats(self.signals[i]), other.signals[i])

\* The channels average_ch is asked for, and the groups average_sub_ch is.
Selections == {<<>>, <<"Ch1">>, <<"Ch2">>, <<"Ch2", "Ch1">>}
GroupSelections == {<<>>, << <<"Ch1">> >>, << <<"Ch2">>, <<"Ch1", "Ch2">> >>}

\* eret: op and rec are the call, ok: no exception left it, before: the
\* container when the call was made; event_time, before_ms, after_ms: the
\* arguments of add_event and get_all_events; epoch, event: what add_event
\* returned and the index of the sample it located; epochs: what
\* get_all_events returned; selection: the groups an averaging was asked
\* for, out: what it returned, eq: original == out.
NoEegRet ==
    [op |-> "none", rec |-> BCISignal(0, <<>>), ok |-> TRUE,
     before |-> EEGContainer(<<>>), event_time |-> 0, before_ms |-> 0,
     after_ms |-> 0, epoch |-> NoEpoch, event |-> 0, epochs |-> <<>>,
     selection |-> <<>>, out |-> NoEpoch, eq |-> FALSE]
HolderStarts ==
    /\ eeg \in {EEGContainer(<<"Ch1">>), EEGContainer(<<"Ch1", "Ch2">>)}
    /\ eret = NoEegRet
HolderAbsent ==
    /\ eeg = EEGContainer(<<>>)
    /\ eret = NoEegRet

\* benchmarking.metrics: similarity scores, the thresholds of a ROC curve.
Scores == {Rat(0, 1), Rat(1, 2), Rat(1, 1), NaN}
ScoreArrays == UNION {[1..n -> Scores] : n \in 1..MaxScores}
RocThresholds == {Rat(0, 1), Rat(3, 4), Rat(1, 1)}
\* (sims >= t).sum() and (sims < t).sum(), over the first n scores.
RECURSIVE CountGe(_, _, _)
CountGe(a, t, n) ==
    IF n = 0 THEN 0 ELSE CountGe(a, t, n - 1) + (IF FGe(a[n], t) THEN 1 ELSE 0)
RECURSIVE CountLt(_, _, _)
CountLt(a, t, n) ==
    IF n = 0 THEN 0 ELSE CountLt(a, t, n - 1) + (IF FLt(a[n], t) THEN 1 ELSE 0)
TPR(p_sims, t) == Rat(CountGe(p_sims, t, Len(p_sims)), Len(p_sims))
FPR(n_sims, t) == Rat(CountGe(n_sims, t, Len(n_sims)), Len(n_sims))
FNR(p_sims, t) == Rat(CountLt(p_sims, t, Len(p_sims)), Len(p_sims))
TNR(n_sims, t) == Rat(CountLt(n_sims, t, Len(n_sims)), Len(n_sims))
\* mret: op and t are the call, rate what it returned.
NoRate == [op |-> "none", t |-> Rat(0, 1), rate |-> Rat(0, 1)]
BenchStarts ==
    /\ scores \in ScoreArrays
    /\ mret = NoRate
BenchAbsent ==
    /\ scores = <<Rat(0, 1)>>
    /\ mret = NoRate

\* __perform_task_rec after the poll loop: the recording made in the loop,
\* the timings the task holds, stop_time; exit tells how the loop ended,
\* stimuli_times and events are what the code after the loop made of them
\* (events as the lengths of the epochs cut), returned is the list after the
\* trimming and raised tells that events[0] raised instead. mode, templates,
\* create_raised, db_before and db_after are the enroll call going on with the
\* epochs returned: the mode it builds templates in (0: not yet), the
\* templates built, whether building them raised, and the database before
\* and after they were added.
Recordings == {<<1>>, <<1, 2>>, <<1, 2, 3>>, <<1, 2, 3, 4, 5, 6>>}
\* The timings a task holds: at most MaxTimings, in time order.
TaskQueues ==
    {q \in UNION {[1..n -> Timing(1, MaxTime)] : n \in 0..MaxTimings} :
        \A i \in 1..(Len(q) - 1) : q[i].timestamp <= q[i + 1].timestamp}
AfterLoop(ts, q, stop_time) ==
    [timestamps |-> ts, q |-> q, stop_time |-> stop_time, exit |-> "none",
     stimuli_times |-> <<>>, events |-> <<>>, returned |-> <<>>,
     raised |-> FALSE, mode |-> 0, templates |-> <<>>, create_raised |-> FALSE,
     db_before |-> <<>>, db_after |-> <<>>]
DrainStarts ==
    drain \in {AfterLoop(ts, q, stop_time) :
                  ts \in Recordings, q \in TaskQueues,
                  stop_time \in 1..MaxTime}
DrainAbsent == drain = AfterLoop(<<1>>, <<>>, 1)

\* ----------------------------------- __calculate_similarity: values and start
\* The databases and lists of fresh templates the method is called with: an
\* identity stores up to MaxTemplates templates, possibly none.
StoredLists == UNION {[1..n -> Feat] : n \in 0..MaxTemplates}
ScoredDatabases ==
    {db \in UNION {[1..n -> [id : Idents, templates : StoredLists]] :
                     n \in 0..Cardinality(Idents)} :
        \A i, j \in 1..Len(db) : db[i].id = db[j].id => i = j}
FreshLists == UNION {[1..n -> Feat] : n \in 1..MaxTemplates}
\* sret: the database and the arguments of the call, whether it was made
\* and the list it returned.
BeforeScoring(db, templates, mode, id) ==
    [db |-> db, templates |-> templates, similarity_mode |-> mode, id |-> id,
     called |-> FALSE, global_sims |-> <<>>]
ScoringStarts ==
    sret \in {BeforeScoring(db, templates, mode, id) :
                 db \in ScoredDatabases, templates \in FreshLists,
                 mode \in SimilarityMode, id \in Idents \cup {None}}
ScoringAbsent == sret = BeforeScoring(<<>>, <<0>>, BestSimilarity, None)

\* ------------------------------------------- fpm relay: values and start
\* Requests are numbered in the order WebHandler.index is entered. relay:
\* sent: the requests made so far; to_worker: the messages in the pipe, each
\* named by its request; in_hand: the request whose message the worker is
\* processing (0: none); to_handler: the replies in the pipe, each named by
\* the request it was produced for; waiting: the requests whose handler is
\* in index; response: what index returned for a request: nothing yet, "{}",
\* or {"resp": reply} with the reply produced for request `of`.
NotReturned == [kind |-> "none", of |-> 0]
EmptyResponse == [kind |-> "empty", of |-> 0]
Resp(of) == [kind |-> "resp", of |-> of]
RelayIdle ==
    [sent |-> 0, to_worker |-> <<>>, in_hand |-> 0, to_handler |-> <<>>,
     waiting |-> {}, response |-> [r \in 1..MaxRelayed |-> NotReturned]]
RelayStarts == relay = RelayIdle
RelayAbsent == relay = RelayIdle

Init ==
    /\ EngineStarts(InitDatabases) /\ BrowserAbsent /\ StoreAbsent /\ HolderAbsent
    /\ BenchAbsent /\ DrainAbsent /\ ScoringAbsent /\ RelayAbsent

\* ------------------------------------------------------------ environment
Tick ==
    /\ now < MaxTime
    /\ now' = now + 1
    /\ ret' = NoRet
    /\ UNCHANGED <<outsideEngine, device, database, session, pc, call,
                   recording>>

DevicePutOn ==
    /\ ~worn
    /\ worn' = TRUE
    /\ ret' = NoRet
    /\ UNCHANGED <<outsideEngine, now, removal_time_stamp, database, session, pc, call,
                   recording>>

\* The device leaves the head (or loses its connection); the driver may not
\* have noticed it yet.
DeviceTakeOff ==
    /\ worn
    /\ worn' = FALSE
    /\ ret' = NoRet
    /\ UNCHANGED <<outsideEngine, now, removal_time_stamp, database, session, pc, call,
                   recording>>

\* The driver detects a removal (or excessive movement) and stamps it.
DeviceStampRemoval ==
    /\ removal_time_stamp # now
    /\ removal_time_stamp' = now
    /\ call' = IF pc = "process" /\ call.op \in {"authenticate", "enroll"}
               THEN [call EXCEPT !.stamped = TRUE] ELSE call
    /\ ret' = NoRet
    /\ UNCHANGED <<outsideEngine, now, worn, database, session, pc, recording>>

\* What is_connected() can answer: a device that reports itself worn is
\* connected.
IsConnectedAnswers == {c \in BOOLEAN : worn => c}

\* ----------------------------------------------------------------- engine
\* Returning to the caller; the locals of the call are gone.
Return(r) ==
    /\ pc' = "idle"
    /\ call' = NoCall
    /\ start' = 0
    /\ timestamps' = <<>>
    /\ events' = <<>>
    /\ ret' = r

\* __perform_task_rec up to the poll loop: a fresh container, start = time(),
\* device.start_stream(), task.start().
StartAcquisition(op, id) ==
    /\ start' = now
    /\ timestamps' = <<>>
    /\ events' = <<>>
    /\ pc' = "poll"
    /\ call' = [op |-> op, id |-> id, stamped |-> FALSE]
    /\ ret' = NoRet

\* "continuous_auth and self.last_auth > self.device.removal_time_stamp"
ContinuousSession_Never(cont) == FALSE
ContinuousSession_Always(cont) == cont
ContinuousSession_Late(cont) == cont /\ last_auth > removal_time_stamp + 1
ContinuousSession(cont) == cont /\ last_auth > removal_time_stamp

\* KeyWave.authenticate up to the acquisition; conn is what is_connected()
\* answers.
Authenticate(id, cont, conn) ==
    /\ pc = "idle"
    /\ UNCHANGED <<outsideEngine, now, worn, database, last_id, last_auth>>
    /\ IF ~conn
       THEN /\ Return(FastRet("authenticate", id, cont, FALSE, None, "no_device"))
            /\ UNCHANGED removal_time_stamp
       ELSE IF ~InDb(database, id)
       THEN /\ Return(FastRet("authenticate", id, cont, FALSE, None, "unknown_id"))
            /\ UNCHANGED removal_time_stamp
       ELSE IF ContinuousSession(cont) /\ ~worn
       THEN /\ removal_time_stamp' = now
            /\ Return(FastRet("authenticate", id, cont, FALSE, None, "not_worn"))
       ELSE IF ContinuousSession(cont) /\ id = last_id
       THEN /\ Return(FastRet("authenticate", id, cont, TRUE, None, "continuous"))
            /\ UNCHANGED removal_time_stamp
       ELSE /\ StartAcquisition("authenticate", id)
            /\ UNCHANGED removal_time_stamp

\* KeyWave.identification up to the acquisition.
Identification_Unchecked(conn) ==
    /\ pc = "idle"
    /\ UNCHANGED <<outsideEngine, now, device, database, session>>
    /\ StartAcquisition("identification", None)
Identification(conn) ==
    /\ pc = "idle"
    /\ UNCHANGED <<outsideEngine, now, device, database, session>>
    /\ IF ~conn
       THEN Return(FastRet("identification", None, FALSE, FALSE, None, "no_device"))
       ELSE StartAcquisition("identification", None)

\* KeyWave.enroll up to the acquisition.
Enroll(id, conn) ==
    /\ pc = "idle"
    /\ UNCHANGED <<outsideEngine, now, device, database, session>>
    /\ IF ~conn
       THEN Return(FastRet("enroll", id, FALSE, FALSE, None, "no_device"))
       ELSE StartAcquisition("enroll", id)

\* The except clause around __perform_task_rec in each caller; stream tells
\* whether the device stream was stopped before the exception was raised.
AcquisitionFailed_KeepsSession(why, stream) ==
    /\ Return([SlowRet(FALSE, None, why) EXCEPT !.stream = stream])
    /\ UNCHANGED <<outsideEngine, now, device, database, session>>
AcquisitionFailed_AlwaysResets(why, stream) ==
    /\ last_auth' = 0
    /\ Return([SlowRet(FALSE, None, why) EXCEPT !.stream = stream])
    /\ UNCHANGED <<outsideEngine, now, device, database, last_id>>
AcquisitionFailed_Escapes(why, stream) ==
    /\ last_auth' = IF call.op = "authenticate" THEN 0 ELSE last_auth
    /\ Return([SlowRet(FALSE, None, why) EXCEPT !.stream = stream, !.exc = TRUE])
    /\ UNCHANGED <<outsideEngine, now, device, database, last_id>>
AcquisitionFailed_ForgetsId(why, stream) ==
    /\ last_auth' = 0 /\ last_id' = None
    /\ Return([SlowRet(FALSE, None, why) EXCEPT !.stream = stream])
    /\ UNCHANGED <<outsideEngine, now, device, database>>
AcquisitionFailed(why, stream) ==
    /\ last_auth' = IF call.op = "authenticate" THEN 0 ELSE last_auth
    /\ Return([SlowRet(FALSE, None, why) EXCEPT !.stream = stream])
    /\ UNCHANGED <<outsideEngine, now, device, database, last_id>>

\* "time() - start < timeout_s"; task.is_alive() is the other half of the
\* loop condition.
InTime_Always == TRUE
InTime == now - start < timeout_s
Removed_StampOnly == removal_time_stamp > start
Removed == removal_time_stamp > start \/ ~worn

\* Poll loop, first check: the device was removed since start or is not
\* worn: stop_stream(), task.stop(), raise.
PollDeviceRemoved ==
    /\ pc = "poll" /\ InTime
    /\ Removed
    /\ AcquisitionFailed("removed", FALSE)

\* Poll loop, second check: task.aborted is set: task.stop() if it is still
\* alive, raise; the stream is not stopped on this path.
PollTaskAborted ==
    /\ pc = "poll" /\ InTime
    /\ ~Removed
    /\ AcquisitionFailed("aborted", TRUE)

\* Poll loop, third step: one sample is fetched when the device has data.
PollFetch ==
    /\ pc = "poll" /\ InTime
    /\ ~Removed
    /\ Len(timestamps) < MaxSamples
    /\ timestamps' = Append(timestamps, now)
    /\ ret' = NoRet
    /\ UNCHANGED <<outsideEngine, now, device, database, session, pc, call, start, events>>

\* After the loop (time is up, or the task is found dead): stop_stream(),
\* drain the task's timings, task.stop(), cut the epochs and trim the tail.
\* An empty recording or an empty list of timings raises inside
\* __perform_task_rec and is caught like the other failures.
PollExit(dead) ==
    /\ pc = "poll"
    /\ ~InTime \/ dead
    /\ LET drained == {DrainTimings(q, now, aliveFor) :
                          q \in TaskData(start, now),
                          aliveFor \in (IF dead THEN {0} ELSE 0..MaxStim)}
       IN \E stimuli_times \in drained :
            IF stimuli_times = <<>> \/ timestamps = <<>>
            THEN AcquisitionFailed("no_events", FALSE)
            ELSE /\ events' = TrimTail(EpochsOf(timestamps, stimuli_times))
                 /\ pc' = "process"
                 /\ ret' = NoRet
                 /\ UNCHANGED <<outsideEngine, now, device, database, session, call, start,
                                timestamps>>

\* KeyWave.authenticate after the acquisition: how a call with these
\* arguments returns, for each set of templates the recording can give.
AuthenticateDecisions(thrArg, tmArg, smArg) ==
    LET threshold == ThresholdOrDefault(thrArg, default_threshold)
        tmode == OrDefault(tmArg, template_mode)
        smode == OrDefault(smArg, similarity_mode)
    IN IF CreateRaises(events, tmode)
       THEN {[SlowRet(FALSE, None, "raised") EXCEPT !.exc = TRUE]}
       ELSE {LET sims == calculate_similarity(database, templates, smode, call.id)
                 r == [SlowRet(FALSE, None, "none") EXCEPT
                          !.given = thrArg, !.thr = threshold, !.sims = sims]
             IN IF Len(sims) # 1 THEN [r EXCEPT !.why = "ambiguous"]
                ELSE IF IsNaN(sims[1].sim) THEN [r EXCEPT !.why = "nan"]
                ELSE IF FLt(sims[1].sim, threshold)
                THEN [r EXCEPT !.why = "below"]
                ELSE [r EXCEPT !.ok = TRUE, !.why = "accepted"]
             : templates \in create_templates(events, tmode)}

\* An end of authenticate that closes the session on every rejection.
AuthenticateFinish_RejectCloses ==
    /\ pc = "process" /\ call.op = "authenticate"
    /\ UNCHANGED <<outsideEngine, now, device, database>>
    /\ \E r \in UNION {AuthenticateDecisions(thrArg, tmArg, smArg) :
                         thrArg \in ThresholdArgs, tmArg \in TemplateModeArgs,
                         smArg \in SimilarityModeArgs} :
        /\ Return(r)
        /\ IF r.ok
           THEN last_auth' = now /\ last_id' = call.id
           ELSE last_auth' = 0 /\ last_id' = last_id
\* The successful end of authenticate: the session state is stamped.
AuthenticateFinish ==
    /\ pc = "process" /\ call.op = "authenticate"
    /\ UNCHANGED <<outsideEngine, now, device, database>>
    /\ \E r \in UNION {AuthenticateDecisions(thrArg, tmArg, smArg) :
                         thrArg \in ThresholdArgs, tmArg \in TemplateModeArgs,
                         smArg \in SimilarityModeArgs} :
        /\ Return(r)
        /\ IF r.ok
           THEN last_auth' = now /\ last_id' = call.id
           ELSE UNCHANGED session

\* KeyWave.identification after the acquisition: how a call with these
\* arguments returns.
IdentificationDecisions(thrArg, tmArg, smArg) ==
    LET threshold == ThresholdOrDefault(thrArg, default_threshold)
        tmode == OrDefault(tmArg, template_mode)
        smode == OrDefault(smArg, similarity_mode)
    IN IF CreateRaises(events, tmode)
       THEN {[SlowRet(FALSE, None, "raised") EXCEPT !.exc = TRUE]}
       ELSE {LET sims == calculate_similarity(database, templates, smode, None)
                 r == [SlowRet(FALSE, "", "none") EXCEPT
                          !.given = thrArg, !.thr = threshold, !.sims = sims]
             IN IF Len(sims) = 0 THEN [r EXCEPT !.why = "no_sims"]
                ELSE IF FLt(sims[1].sim, threshold)
                THEN [r EXCEPT !.why = "below"]
                ELSE [r EXCEPT !.ok = TRUE, !.who = sims[1].id,
                               !.why = "accepted"]
             : templates \in create_templates(events, tmode)}

IdentificationFinish ==
    /\ pc = "process" /\ call.op = "identification"
    /\ UNCHANGED <<outsideEngine, now, device, database, session>>
    /\ \E r \in UNION {IdentificationDecisions(thrArg, tmArg, smArg) :
                         thrArg \in ThresholdArgs, tmArg \in TemplateModeArgs,
                         smArg \in SimilarityModeArgs} :
        Return(r)

\* KeyWave.enroll after the acquisition.
EnrollFinish_NoSession ==
    /\ pc = "process" /\ call.op = "enroll"
    /\ UNCHANGED <<outsideEngine, now, device, session>>
    /\ \E modeArg \in EnrollModeArgs :
        LET mode == OrDefault(modeArg, template_mode)
        IN IF CreateRaises(events, mode)
           THEN /\ Return([SlowRet(FALSE, None, "raised") EXCEPT !.exc = TRUE])
                /\ UNCHANGED database
           ELSE \E templates \in create_templates(events, mode) :
                /\ database' = add_templates(database, call.id, templates)
                /\ Return(SlowRet(TRUE, None, "enrolled"))
EnrollFinish ==
    /\ pc = "process" /\ call.op = "enroll"
    /\ UNCHANGED <<outsideEngine, now, device>>
    /\ \E modeArg \in EnrollModeArgs :
        LET mode == OrDefault(modeArg, template_mode)
        IN IF CreateRaises(events, mode)
           THEN /\ Return([SlowRet(FALSE, None, "raised") EXCEPT !.exc = TRUE])
                /\ UNCHANGED <<database, session>>
           ELSE \E templates \in create_templates(events, mode) :
                /\ database' = add_templates(database, call.id, templates)
                /\ last_auth' = now
                /\ last_id' = call.id
                /\ Return(SlowRet(TRUE, None, "enrolled"))

\* KeyWave.reset
Reset_KeepsStamp ==
    /\ pc = "idle"
    /\ last_id' = None
    /\ ret' = [NoRet EXCEPT !.op = "reset", !.prev = PrevOf(ret)]
    /\ UNCHANGED <<outsideEngine, now, device, database, last_auth, pc, call, recording>>
Reset ==
    /\ pc = "idle"
    /\ last_id' = None
    /\ last_auth' = 0
    /\ ret' = [NoRet EXCEPT !.op = "reset", !.prev = PrevOf(ret)]
    /\ UNCHANGED <<outsideEngine, now, device, database, pc, call, recording>>

\* TemplateDatabase.remove_identity, called by the application on the
\* engine's database.
RemoveIdentity(id) ==
    /\ pc = "idle"
    /\ InDb(database, id)
    /\ database' = remove_identity(database, id)
    /\ ret' = NoRet
    /\ UNCHANGED <<outsideEngine, now, device, session, pc, call, recording>>

\* The application offers enrolment only for an identity that is not
\* enrolled (BCIAuthEnrollDialog).
Next ==
    \/ Tick
    \/ DevicePutOn
    \/ DeviceTakeOff
    \/ DeviceStampRemoval
    \/ \E id \in Idents, cont \in BOOLEAN, conn \in IsConnectedAnswers :
          Authenticate(id, cont, conn)
    \/ \E conn \in IsConnectedAnswers : Identification(conn)
    \/ \E id \in Idents, conn \in IsConnectedAnswers :
          ~InDb(database, id) /\ Enroll(id, conn)
    \/ PollDeviceRemoved
    \/ PollTaskAborted
    \/ PollFetch
    \/ \E dead \in BOOLEAN : PollExit(dead)
    \/ AuthenticateFinish
    \/ IdentificationFinish
    \/ EnrollFinish
    \/ Reset
    \/ \E id \in Idents : RemoveIdentity(id)

Spec == Init /\ [][Next]_vars

\* The engine where wall-clock time advances and every device and task call
\* returns: the clock ticks, and a poll loop whose condition is false is
\* left for the code after it. That the task ends or is aborted, or that the
\* device is removed, is nothing the engine can count on. The engine starts
\* on an empty database, which enroll fills.
InitFair ==
    /\ EngineStarts({<<>>}) /\ BrowserAbsent /\ StoreAbsent /\ HolderAbsent
    /\ BenchAbsent /\ DrainAbsent /\ ScoringAbsent /\ RelayAbsent
SpecFair ==
    /\ InitFair /\ [][Next]_vars
    /\ WF_vars(Tick)
    /\ WF_vars(PollExit(FALSE))

\* ================================================================= claims
\* The acquisition-level failures: what __perform_task_rec raises.
AcquisitionFailures == {"removed", "aborted", "no_events"}
\* An authenticate / identification call that got as far as its decision.
Decided == {"ambiguous", "nan", "no_sims", "below", "accepted"}
Enrolled(id) == \E i \in 1..Len(database) : database[i].id = id
\* The aggregated similarity of the recording to identity id.
SimTo(sims, id) == sims[CHOOSE i \in 1..Len(sims) : sims[i].id = id].sim
ThresholdInForce == ret.thr
\* The call about to be made follows a successful op for id at once, the
\* device is worn and no removal was stamped at or after that success.
RightAfter(op, id) ==
    /\ ret.ok /\ PrevOf(ret) = [op |-> op, id |-> id]
    /\ worn /\ removal_time_stamp < now
AcceptedWithoutAcquisition == pc' = "idle" /\ ret'.ok /\ ret'.fast

\* C1: an authenticate(id, continuous_auth = true) made immediately after an
\* authenticate(id) that returned true, with the device worn and no removal
\* stamped since before that success, returns true without acquisition.
C1_ContinuousAfterAuthenticate ==
    [][\A id \in Idents, conn \in IsConnectedAnswers :
         (Authenticate(id, TRUE, conn) /\ RightAfter("authenticate", id))
            => AcceptedWithoutAcquisition]_vars
C1_Witness ==
    /\ ret.op = "authenticate" /\ ret.cont /\ ret.ok /\ ret.fast
    /\ ret.prev = [op |-> "authenticate", id |-> ret.id]
    /\ worn /\ removal_time_stamp < last_auth

\* C2: an authenticate call that reached its decision for an enrolled
\* identity returns true exactly when the aggregated similarity to that
\* identity is not NaN and is at least the threshold in force.
C2_AcceptIffSimilar ==
    (ret.op = "authenticate" /\ ret.why \in Decided) =>
        (ret.ok <=> /\ ~IsNaN(SimTo(ret.sims, ret.id))
                    /\ FGe(SimTo(ret.sims, ret.id), ThresholdInForce))

\* C3: authenticate(id) for an identity that is not in the database returns
\* false in the step of the call, starts no stream and no task, and leaves
\* last_id and last_auth as they were.
C3_UnknownIdentity ==
    [][\A id \in Idents, cont \in BOOLEAN, conn \in IsConnectedAnswers :
         (Authenticate(id, cont, conn) /\ ~Enrolled(id))
            => /\ pc' = "idle" /\ ret'.fast /\ ~ret'.ok
               /\ UNCHANGED <<last_id, last_auth>>]_vars
C3_Witness ==
    /\ ret.op = "authenticate" /\ ret.fast /\ ~ret.ok /\ ~Enrolled(ret.id)
    /\ worn /\ last_id # None /\ last_auth > 0

\* The answer of a call made while the device is not connected.
NoDeviceAnswer ==
    /\ pc' = "idle" /\ ret'.fast /\ ~ret'.ok /\ ret'.who = None
    /\ UNCHANGED <<database, last_id, last_auth>>

\* C4: with the device not connected, enroll and authenticate return false
\* and identification returns (false, None), in the step of the call, with
\* the database, last_id and last_auth unchanged.
C4_NoDevice ==
    [][pc = "idle" /\ now' = now /\ worn' = worn =>
         /\ \A id \in Idents, cont \in BOOLEAN :
                Authenticate(id, cont, FALSE) => NoDeviceAnswer
         /\ \A id \in Idents : Enroll(id, FALSE) => NoDeviceAnswer
         /\ Identification(FALSE) => NoDeviceAnswer]_vars
C4_Witness ==
    /\ ret.op = "identification" /\ ret.fast /\ ~ret.ok /\ ret.who = None
    /\ ~worn /\ database # <<>> /\ last_id # None

\* C5: an enroll(id) that succeeds sets last_id to id and last_auth to the
\* time of completion, and an authenticate(id, continuous_auth = true) made
\* immediately afterwards, with the device worn and no removal stamped, is
\* accepted without acquisition.
C5_EnrollOpensSession ==
    [][/\ (pc = "process" /\ call.op = "enroll" /\ ret'.ok)
            => (last_id' = call.id /\ last_auth' = now)
       /\ \A id \in Idents, conn \in IsConnectedAnswers :
            (Authenticate(id, TRUE, conn) /\ RightAfter("enroll", id))
               => AcceptedWithoutAcquisition]_vars
C5_Witness ==
    /\ ret.op = "authenticate" /\ ret.cont /\ ret.ok /\ ret.fast
    /\ ret.prev = [op |-> "enroll", id |-> ret.id]
    /\ last_id = ret.id /\ worn

\* C6: when the acquisition fails inside authenticate, the call returns
\* false with last_auth = 0, and an authenticate(continuous_auth = true)
\* that follows is not accepted on the fast path.
C6_FailureClosesSession ==
    [][/\ (pc = "poll" /\ call.op = "authenticate" /\ pc' = "idle")
            => (~ret'.ok /\ last_auth' = 0)
       /\ \A id \in Idents, conn \in IsConnectedAnswers :
            (/\ Authenticate(id, TRUE, conn)
             /\ ret.op = "authenticate" /\ ret.why \in AcquisitionFailures)
               => ~(ret'.ok /\ ret'.fast)]_vars
C6_Witness ==
    /\ ret.op = "authenticate" /\ ret.why \in AcquisitionFailures
    /\ ~ret.ok /\ last_id = ret.id /\ last_auth = 0

\* C7: a failure of the acquisition never leaves enroll, authenticate or
\* identification as an exception: the call returns false, identification
\* (false, None).
C7_FailuresAreCaught ==
    [][(pc = "poll" /\ pc' = "idle")
          => (~ret'.exc /\ ~ret'.ok /\ ret'.who = None /\ ret'.op = call.op)]_vars
C7_Witness ==
    /\ ret.op = "identification" /\ ret.why = "aborted"
    /\ ~ret.exc /\ ~ret.ok /\ ret.who = None

\* C8: an authenticate(continuous_auth = true) that finds last_auth >
\* removal_time_stamp and is told by the device that it is not worn sets
\* removal_time_stamp to the current time and returns false without
\* acquisition.  The device is asked once the connection and enrolment
\* checks have passed.
C8_NotWornStamps ==
    [][\A id \in Idents, conn \in IsConnectedAnswers :
         (Authenticate(id, TRUE, conn) /\ conn /\ Enrolled(id)
            /\ last_auth > removal_time_stamp /\ ~worn)
            => /\ removal_time_stamp' = now
               /\ pc' = "idle" /\ ret'.fast /\ ~ret'.ok]_vars
C8_Witness ==
    /\ ret.op = "authenticate" /\ ret.cont /\ ret.why = "not_worn"
    /\ ~ret.ok /\ ~worn /\ removal_time_stamp = now /\ last_auth < now
    /\ last_auth > 0

\* C9: after identification returns (true, X), an authenticate(X,
\* continuous_auth = true) made immediately afterwards, with the device
\* worn and no removal stamped, is accepted without acquisition.
C9_IdentificationOpensSession ==
    [][\A id \in Idents, conn \in IsConnectedAnswers :
         (Authenticate(id, TRUE, conn) /\ RightAfter("identification", id))
            => AcceptedWithoutAcquisition]_vars

\* C10: identification returns (true, X) only for an enrolled X whose
\* aggregated similarity is the highest of all enrolled identities and at
\* least the threshold; it rejects when the highest similarity is below the
\* threshold or nobody is enrolled.
C10_IdentifiesBest ==
    (ret.op = "identification" /\ ret.why \in Decided) =>
        /\ ret.ok =>
            /\ Enrolled(ret.who)
            /\ FGe(SimTo(ret.sims, ret.who), ThresholdInForce)
            /\ \A j \in 1..Len(ret.sims) :
                  FGe(SimTo(ret.sims, ret.who), ret.sims[j].sim)
        /\ (\A j \in 1..Len(ret.sims) : FLt(ret.sims[j].sim, ThresholdInForce))
              => ~ret.ok

\* An identification call returns in this step.
IdentificationReturns ==
    \/ pc = "idle" /\ pc' = "idle" /\ ret'.op = "identification"
    \/ pc \in {"poll", "process"} /\ call.op = "identification" /\ pc' = "idle"

\* C11: an identification that fails (no device, acquisition failure, no
\* similarity or top similarity below the threshold) leaves last_auth and
\* last_id as they were before the call.
C11_FailedIdentificationKeepsSession ==
    [][(IdentificationReturns /\ ~ret'.ok)
          => UNCHANGED <<last_auth, last_id>>]_vars
C11_Witness ==
    /\ ret.op = "identification" /\ ~ret.ok /\ ret.why = "removed"
    /\ last_id # None /\ last_auth > 0

\* The threshold the caller asked for: the supplied one, the default when
\* none was supplied.
ThresholdAsked ==
    IF ret.given.given THEN ret.given.v ELSE default_threshold

\* C12: authenticate and identification decide with the threshold the
\* caller supplied, whatever its value (0 included), and with the default
\* threshold only when none was supplied: a call that reached the
\* comparison is accepted exactly when its similarity is not below that
\* threshold.
C12_DecidesWithSuppliedThreshold ==
    (ret.op \in {"authenticate", "identification"}
        /\ ret.why \in {"below", "accepted"})
       => /\ ret.thr = ThresholdAsked
          /\ ret.ok <=> ~FLt(ret.sims[1].sim, ThresholdAsked)

\* C13: reset() sets last_id to None and last_auth to 0; from then on the
\* session stays closed until an authenticate or enroll succeeds, and while
\* it is closed no authenticate(continuous_auth = true) is accepted without
\* acquisition.
SessionClosed == last_id = None /\ last_auth = 0
C13_ResetClosesSession ==
    [][/\ (ret'.op = "reset") => SessionClosed'
       /\ (SessionClosed /\ ~SessionClosed')
             => /\ pc = "process" /\ call.op \in {"authenticate", "enroll"}
                /\ ret'.ok
       /\ \A id \in Idents, conn \in IsConnectedAnswers :
             (Authenticate(id, TRUE, conn) /\ SessionClosed)
                => ~(ret'.ok /\ ret'.fast)]_vars
C13_Witness ==
    /\ ret.op = "reset" /\ ret.prev.op = "authenticate"
    /\ SessionClosed /\ worn /\ removal_time_stamp < now
    /\ InDb(database, ret.prev.id)

\* ================================================= fpm: the browser worker
\* ------------------------------------------------------------ environment
\* The extension's request reaches the web handler, which sends it on.
BrowserRequest(msg) ==
    /\ nreq < MaxReq
    /\ nreq' = nreq + 1
    /\ inbox' = Append(inbox, [req |-> nreq + 1, msg |-> msg])
    /\ reply' = NoReply
    /\ UNCHANGED <<outsideBrowser, settings, vault, worker>>

\* SettingsContainer.__setitem__ from the settings screen.
ChangeSetting(key, value) ==
    /\ settings[key] # value
    /\ settings' = [settings EXCEPT ![key] = value]
    /\ reply' = NoReply
    /\ UNCHANGED <<outsideBrowser, vault, inbox, nreq, worker>>

\* EncryptedDatabase.connect: the login screen opens a vault.
VaultConnect(data) ==
    /\ vault = NoVault
    /\ vault' = [connected |-> TRUE, data |-> data]
    /\ reply' = NoReply
    /\ UNCHANGED <<outsideBrowser, settings, inbox, nreq, worker>>

\* EncryptedDatabase.disconnect, in the application's thread: the flag falls
\* first, the entries go next.
VaultDisconnectFlag ==
    /\ vault.connected
    /\ vault' = [vault EXCEPT !.connected = FALSE]
    /\ reply' = NoReply
    /\ UNCHANGED <<outsideBrowser, settings, inbox, nreq, worker>>
VaultDisconnectData ==
    /\ ~vault.connected
    /\ vault.data # <<>>
    /\ vault' = [vault EXCEPT !.data = <<>>]
    /\ reply' = NoReply
    /\ UNCHANGED <<outsideBrowser, settings, inbox, nreq, worker>>

\* ----------------------------------------------------------------- worker
\* async_server.outside.send(answer), and back to run(); w is the worker
\* with what it has observed.
Send(w, answer) ==
    /\ reply' = [req |-> w.req, answer |-> answer, by |-> w]
    /\ worker' = IdleWorker
send_empty(w) == Send(w, Answer("empty"))

HasDomain(msg) == msg.domain # NoDomain
\* The "www." prefix goes.
StripWww(d) == IF StartsWith(d, www) THEN SubSeq(d, 5, Len(d)) ELSE d
\* The first entry whose domain ends with d; 0 when there is none.
FirstMatch(data, d) ==
    IF \E i \in 1..Len(data) : EndsWith(data[i].domain, d)
    THEN CHOOSE i \in 1..Len(data) :
            /\ EndsWith(data[i].domain, d)
            /\ \A j \in 1..(i - 1) : ~EndsWith(data[j].domain, d)
    ELSE 0

\* BrowserWorker.run: a message is there; recv, json.loads, process_msg.
Recv ==
    /\ worker.pc = "idle"
    /\ inbox # <<>>
    /\ worker' = [IdleWorker EXCEPT !.pc = "process_msg", !.req = Head(inbox).req,
                                    !.msg = Head(inbox).msg]
    /\ inbox' = Tail(inbox)
    /\ reply' = NoReply
    /\ UNCHANGED <<outsideBrowser, settings, vault, nreq>>

\* BrowserWorker.process_msg.
ProcessMsg ==
    /\ worker.pc = "process_msg"
    /\ UNCHANGED <<outsideBrowser, settings, vault, inbox, nreq>>
    /\ LET w == [worker EXCEPT !.saw_support = settings.browser_support,
                               !.saw_connected = vault.connected]
       IN  IF ~settings.browser_support \/ ~vault.connected
           THEN Send(w, Answer("auth_fail"))
           ELSE IF ~w.msg.isdict THEN send_empty(w)
           ELSE IF w.msg.type = None THEN send_empty(w)
           ELSE IF w.msg.type = "check"
           THEN worker' = [w EXCEPT !.pc = "process_check"] /\ reply' = NoReply
           ELSE IF w.msg.type = "auth"
           THEN worker' = [w EXCEPT !.pc = "process_auth"] /\ reply' = NoReply
           ELSE send_empty(w)

\* BrowserWorker.process_check.
ProcessCheck ==
    /\ worker.pc = "process_check"
    /\ UNCHANGED <<outsideBrowser, settings, vault, inbox, nreq>>
    /\ IF ~HasDomain(worker.msg) THEN send_empty(worker)
       ELSE IF ~vault.connected THEN send_empty(worker)
       ELSE Send(worker,
                 [Answer("check") EXCEPT !.is_present =
                     FirstMatch(vault.data, StripWww(worker.msg.domain)) # 0])

\* BrowserWorker.process_auth up to the call of authenticate.
ProcessAuth ==
    /\ worker.pc = "process_auth"
    /\ UNCHANGED <<outsideBrowser, settings, vault, inbox, nreq>>
    /\ IF ~HasDomain(worker.msg) THEN send_empty(worker)
       ELSE IF ~vault.connected THEN send_empty(worker)
       ELSE LET w == [worker EXCEPT !.msg.domain = StripWww(worker.msg.domain),
                         !.plugin = settings.plugin_auth /\ settings.verification_system,
                         !.cfg_id = settings.id,
                         !.cfg_cont = settings.continuous_auth]
            IN  /\ reply' = NoReply
                /\ IF settings.plugin_auth /\ settings.verification_system
                   THEN worker' = [w EXCEPT !.pc = "authenticate", !.asked = TRUE,
                                       !.arg_id = settings.id,
                                       !.arg_cont = settings.continuous_auth]
                   ELSE worker' = [w EXCEPT !.pc = "answer", !.auth = TRUE]

\* verification_system.authenticate returns ok.
AuthenticateReturns(ok) ==
    /\ worker.pc = "authenticate"
    /\ worker' = [worker EXCEPT !.pc = "answer", !.auth = ok, !.result = ok]
    /\ reply' = NoReply
    /\ UNCHANGED <<outsideBrowser, settings, vault, inbox, nreq>>

\* BrowserWorker.process_auth from the answer on.
BuildAnswer_Always ==
    /\ worker.pc = "answer"
    /\ UNCHANGED <<outsideBrowser, settings, vault, inbox, nreq>>
    /\ LET i == FirstMatch(vault.data, worker.msg.domain)
       IN  Send(worker,
                IF i = 0 THEN Answer("auth")
                ELSE [Answer("auth") EXCEPT !.username = vault.data[i].username,
                                            !.password = vault.data[i].password])
BuildAnswer ==
    /\ worker.pc = "answer"
    /\ UNCHANGED <<outsideBrowser, settings, vault, inbox, nreq>>
    /\ IF worker.auth
       THEN LET i == FirstMatch(vault.data, worker.msg.domain)
            IN  Send(worker,
                     IF i = 0 THEN Answer("auth")
                     ELSE [Answer("auth") EXCEPT
                              !.username = vault.data[i].username,
                              !.password = vault.data[i].password])
       ELSE Send(worker, Answer("auth_fail"))

SettingKeys == {"browser_support", "plugin_auth", "continuous_auth"}
NextBrowser ==
    \/ \E msg \in Messages : BrowserRequest(msg)
    \/ \E key \in SettingKeys, value \in BOOLEAN : ChangeSetting(key, value)
    \/ \E value \in Idents : ChangeSetting("id", value)
    \/ \E data \in VaultContents : VaultConnect(data)
    \/ VaultDisconnectFlag
    \/ VaultDisconnectData
    \/ Recv
    \/ ProcessMsg
    \/ ProcessCheck
    \/ ProcessAuth
    \/ \E ok \in BOOLEAN : AuthenticateReturns(ok)
    \/ BuildAnswer

InitBrowser ==
    /\ EngineStarts({<<>>}) /\ BrowserStarts /\ StoreAbsent /\ HolderAbsent
    /\ BenchAbsent /\ DrainAbsent /\ ScoringAbsent /\ RelayAbsent
SpecBrowser == InitBrowser /\ [][NextBrowser]_vars

HasCredentials(answer) == answer.username # None \/ answer.password # None

RECURSIVE TemplatesIn(_)
TemplatesIn(db) ==
    IF db = <<>> THEN 0 ELSE Len(Head(db).templates) + TemplatesIn(Tail(db))
\* The templates a dict holds under key id.
HandedIn(data, id) ==
    IF \E i \in 1..Len(data.items) : data.items[i].key = id
    THEN data.items[CHOOSE i \in 1..Len(data.items) : data.items[i].key = id].templates
    ELSE <<>>

\* database.add_template(id, t).
AddTemplate(id, t) ==
    /\ TemplatesIn(tdb) < MaxTemplates
    /\ tdb' = add_template(tdb, id, t)
    /\ tlog' = [tlog EXCEPT ![id] = Append(@, t)]
    /\ tret' = [NoDbRet EXCEPT !.op = "add_template", !.id = id, !.before = tdb]
    /\ UNCHANGED outsideStore

\* database = TemplateDatabase.construct_from_dict(data).
ConstructFromDict(data) ==
    /\ LET r == construct_from_dict(data)
       IN  /\ IF r.ok
              THEN /\ tdb' = r.db
                   /\ tlog' = [id \in Idents |-> HandedIn(data, id)]
              ELSE UNCHANGED <<tdb, tlog>>
           /\ tret' = [NoDbRet EXCEPT !.op = "construct_from_dict", !.ok = r.ok,
                                      !.data = data, !.before = tdb]
    /\ UNCHANGED outsideStore

\* database.remove_identity(id).
DbRemoveIdentity(id) ==
    /\ tdb' = remove_identity(tdb, id)
    /\ tlog' = [tlog EXCEPT ![id] = <<>>]
    /\ tret' = [NoDbRet EXCEPT !.op = "remove_identity", !.id = id, !.before = tdb]
    /\ UNCHANGED outsideStore

\* database.get_templates(id).
GetTemplates(id) ==
    /\ tret' = [NoDbRet EXCEPT !.op = "get_templates", !.id = id, !.before = tdb,
                               !.found = get_templates(tdb, id).found,
                               !.templates = get_templates(tdb, id).templates]
    /\ UNCHANGED <<outsideStore, tdb, tlog>>

\* TemplateDatabase.construct_from_json(database.to_json()) == database.
RoundTrip ==
    /\ LET r == construct_from_json(to_json(tdb))
       IN  tret' = [NoDbRet EXCEPT !.op = "round_trip", !.before = tdb,
                                   !.json = to_json(tdb), !.ok = r.ok,
                                   !.back = r.db, !.eq = r.ok /\ db_eq(r.db, tdb)]
    /\ UNCHANGED <<outsideStore, tdb, tlog>>

\* LoginScreen: the TEMPLATES field is there and the database it gives
\* replaces the verification system's.
LoadJson(j) ==
    /\ LET r == construct_from_json(j)
       IN  /\ IF r.ok
              THEN /\ tdb' = r.db
                   /\ tlog' = [id \in Idents |-> get_templates(r.db, id).templates]
              ELSE UNCHANGED <<tdb, tlog>>
           /\ tret' = [NoDbRet EXCEPT !.op = "load", !.ok = r.ok, !.json = j,
                                      !.before = tdb]
    /\ UNCHANGED outsideStore

NextDb ==
    \/ \E id \in Idents, t \in Arrays : AddTemplate(id, t)
    \/ \E data \in DictInputs : ConstructFromDict(data)
    \/ \E id \in Idents : DbRemoveIdentity(id)
    \/ \E id \in Idents : GetTemplates(id)
    \/ RoundTrip
    \/ \E j \in JsonInputs : LoadJson(j)

InitDb ==
    /\ EngineStarts({<<>>}) /\ BrowserAbsent /\ StoreStarts /\ HolderAbsent
    /\ BenchAbsent /\ DrainAbsent /\ ScoringAbsent /\ RelayAbsent
SpecDb == InitDb /\ [][NextDb]_vars

Present(db) == {get_all_idents(db)[i] : i \in 1..Len(db)}

\* C15: whatever construct_from_dict, construct_from_json, add_template and
\* remove_identity have done, an identity present in the database has a
\* non-empty template list, and for an absent one get_templates reports
\* found = false and no templates.
C15_PresentIffTemplates ==
    \A id \in Idents :
        LET r == get_templates(tdb, id)
        IN  IF id \in Present(tdb)
            THEN r.found /\ r.templates # <<>>
            ELSE ~r.found /\ r.templates = <<>>
\* construct_from_dict was handed an identity with an empty list next to one
\* with templates.
C15_Witness ==
    /\ tret.op = "construct_from_dict" /\ tret.ok
    /\ \E i \in 1..Len(tret.data.items) : tret.data.items[i].templates = <<>>
    /\ tdb # <<>>

\* C16: get_templates(id) for an identity that templates were added under
\* (by add_template or through construct_from_dict) reports found = true and
\* returns exactly those templates in the order they were added, whatever
\* was added under other identities.
C16_ReturnsWhatWasAdded ==
    (tret.op = "get_templates" /\ tlog[tret.id] # <<>>)
        => tret.found /\ tret.templates = tlog[tret.id]
\* Two different templates were added under the identity asked for, one
\* after the other.
C16_Witness ==
    /\ tret.op = "get_templates"
    /\ Len(tlog[tret.id]) = 2 /\ tlog[tret.id][1] # tlog[tret.id][2]
    /\ tret.before # <<>>

\* C17: after remove_identity(id), get_templates(id) returns found = false
\* and no templates, every other identity has the templates it had, and if
\* id was not present nothing has changed.
C17_RemoveIdentity ==
    tret.op = "remove_identity" =>
        /\ get_templates(tdb, tret.id) = [found |-> FALSE, templates |-> <<>>]
        /\ \A other \in Idents \ {tret.id} :
              get_templates(tdb, other) = get_templates(tret.before, other)
        /\ ~InDb(tret.before, tret.id) => tdb = tret.before
\* An identity with templates was removed and another one is still there.
C17_Witness ==
    /\ tret.op = "remove_identity"
    /\ InDb(tret.before, tret.id)
    /\ tdb # <<>>

\* C18: for every database with at least one identity,
\* construct_from_json(db.to_json()) == db.
C18_RoundTrip ==
    (tret.op = "round_trip" /\ tret.before # <<>>) => tret.ok /\ tret.eq

\* An object whose values are arrays of arrays of numbers.
WellFormed(j) ==
    /\ j.kind = "obj"
    /\ \A i \in 1..Len(j.items) :
          /\ j.items[i].kind = "arr"
          /\ \A n \in 1..Len(j.items[i].items) :
                /\ j.items[i].items[n].kind = "arr"
                /\ IsNumbers(j.items[i].items[n].items)

\* C19: loading persisted data that is no object of identities with arrays
\* of arrays of numbers fails, and a failed load leaves the database that
\* was installed in place.
C19_MalformedLoadFails ==
    /\ (tret.op = "load" /\ ~WellFormed(tret.json)) => ~tret.ok
    /\ (tret.op = "load" /\ ~tret.ok) => tdb = tret.before

\* ==================================================== EEGContainer in use
\* container.add_data(rec).
AddData(rec) ==
    /\ Len(eeg.timestamps) < MaxData
    \* a device stamps its samples as they arrive: time never runs backwards
    /\ \A i \in 1..Len(eeg.timestamps) : eeg.timestamps[i] <= rec.timestamp
    /\ eeg' = add_data(eeg, rec).self
    /\ eret' = [NoEegRet EXCEPT !.op = "add_data", !.rec = rec,
                                !.ok = add_data(eeg, rec).ok, !.before = eeg]
    /\ UNCHANGED outsideHolder

\* container.add_event(event_time, before, after).
AddEvent(event_time, before, after) ==
    /\ LET r == add_event(eeg, event_time, before, after)
       IN  /\ eeg' = r.self
           /\ eret' = [NoEegRet EXCEPT !.op = "add_event", !.ok = r.ok,
                           !.before = eeg, !.event_time = event_time,
                           !.before_ms = before, !.after_ms = after,
                           !.epoch = r.epoch, !.event = r.event]
    /\ UNCHANGED outsideHolder

\* container.get_all_events(before, after).
GetAllEvents(before, after) ==
    /\ LET r == get_all_events(eeg, before, after)
       IN  /\ eeg' = r.self
           /\ eret' = [NoEegRet EXCEPT !.op = "get_all_events", !.ok = r.ok,
                           !.before = eeg, !.before_ms = before,
                           !.after_ms = after, !.epochs = r.epochs]
    /\ UNCHANGED outsideHolder

\* container.average_ch(*channel_selection), compared with the container.
AverageCh(channel_selection) ==
    /\ LET r == average_ch(eeg, channel_selection)
       IN  /\ eeg' = r.self
           /\ eret' = [NoEegRet EXCEPT !.op = "average_ch", !.ok = r.ok,
                           !.before = eeg,
                           !.selection = IF channel_selection = <<>> THEN <<>>
                                         ELSE <<channel_selection>>,
                           !.out = r.out,
                           !.eq = r.ok /\ eeg_eq(AsNumbers(r.self),
                                                 StampsAsNumbers(r.out))]
    /\ UNCHANGED outsideHolder

\* container.average_sub_ch(*channel_selection), compared with the container.
AverageSubCh(channel_selection) ==
    /\ LET r == average_sub_ch(eeg, channel_selection)
       IN  /\ eeg' = r.self
           /\ eret' = [NoEegRet EXCEPT !.op = "average_sub_ch", !.ok = r.ok,
                           !.before = eeg, !.selection = channel_selection,
                           !.out = r.out,
                           !.eq = r.ok /\ eeg_eq(AsNumbers(r.self),
                                                 StampsAsNumbers(r.out))]
    /\ UNCHANGED outsideHolder

\* epoch.average_ch(*channel_selection) on the epoch add_event just returned.
EpochAverageCh(channel_selection) ==
    /\ eret.op = "add_event" /\ eret.ok
    /\ LET r == event_average_ch(eret.epoch, channel_selection)
       IN  eret' = [NoEegRet EXCEPT !.op = "epoch.average_ch", !.ok = r.ok,
                       !.before = eeg, !.epoch = r.self,
                       !.epochs = <<eret.epoch>>,
                       !.selection = IF channel_selection = <<>> THEN <<>>
                                     ELSE <<channel_selection>>,
                       !.out = r.out, !.eq = r.ok /\ event_eq(r.self, r.out)]
    /\ UNCHANGED <<outsideHolder, eeg>>

\* epoch.average_sub_ch(*channel_selection) on the epoch add_event just
\* returned.
EpochAverageSubCh(channel_selection) ==
    /\ eret.op = "add_event" /\ eret.ok
    /\ LET r == event_average_sub_ch(eret.epoch, channel_selection)
       IN  eret' = [NoEegRet EXCEPT !.op = "epoch.average_sub_ch", !.ok = r.ok,
                       !.before = eeg, !.epoch = r.self,
                       !.epochs = <<eret.epoch>>,
                       !.selection = channel_selection,
                       !.out = r.out, !.eq = r.ok /\ event_eq(r.self, r.out)]
    /\ UNCHANGED <<outsideHolder, eeg>>

\* container.save_signals(file); container2 = EEGContainer(the same names
\* and rate); container2.load_signals(file); container == container2.
SaveAndLoad ==
    /\ LET container2 ==
               load_signals(EEGContainer(eeg.channel_names), save_signals(eeg))
       IN  eret' = [NoEegRet EXCEPT !.op = "save_load", !.before = eeg,
                       !.out = container2,
                       !.eq = eeg_eq(AsNumbers(eeg), container2)]
    /\ UNCHANGED <<outsideHolder, eeg>>

NextHolder ==
    \/ \E rec \in Samples : AddData(rec)
    \/ \E event_time \in EventTimes, before \in Durations, after \in Durations :
          AddEvent(event_time, before, after)
    \/ \E before \in Durations, after \in Durations : GetAllEvents(before, after)
    \/ \E channel_selection \in Selections : AverageCh(channel_selection)
    \/ \E channel_selection \in GroupSelections : AverageSubCh(channel_selection)
    \/ \E channel_selection \in Selections : EpochAverageCh(channel_selection)
    \/ \E channel_selection \in GroupSelections : EpochAverageSubCh(channel_selection)
    \/ SaveAndLoad

InitHolder ==
    /\ EngineStarts({<<>>}) /\ BrowserAbsent /\ StoreAbsent /\ HolderStarts
    /\ BenchAbsent /\ DrainAbsent /\ ScoringAbsent /\ RelayAbsent
SpecHolder == InitHolder /\ [][NextHolder]_vars

Channels(c) == 1..Len(c.channel_names)

\* C20: add_data with as many values as there are channels appends one time
\* stamp and one value to every channel; with any other number of values it
\* fails and changes neither the time stamps nor any channel; so every
\* channel is always as long as the time stamps.
C20_AddDataAllOrNothing ==
    /\ eret.op = "add_data" =>
          IF Len(eret.rec.signals) = Len(eret.before.channel_names)
          THEN /\ eret.ok
               /\ eeg.timestamps = Append(eret.before.timestamps, eret.rec.timestamp)
               /\ \A c \in Channels(eeg) :
                     eeg.signals[c] = Append(eret.before.signals[c], eret.rec.signals[c])
          ELSE ~eret.ok /\ eeg = eret.before
    /\ Len(eeg.signals) = Len(eeg.channel_names)
    /\ \A c \in Channels(eeg) : Len(eeg.signals[c]) = Len(eeg.timestamps)
\* A sample with too many values was refused by a container that holds data.
C20_Witness ==
    /\ eret.op = "add_data" /\ ~eret.ok
    /\ Len(eret.rec.signals) > Len(eeg.channel_names)
    /\ eeg.timestamps # <<>>

\* floor(ms * rate / 1000), as the largest n with n * 1000 <= ms * rate.
FloorSamples(ms, rate) ==
    CHOOSE n \in 0..(ms * rate) :
        n * 1000 <= ms * rate /\ ms * rate < (n + 1) * 1000

\* C21: add_event on a container of N samples, for an event whose nearest
\* sample has index i, returns an epoch with time stamp 0 at that sample, of
\* length min(i + after_samples, N) - max(i - before_samples, 0) where
\* before_samples = floor(before * sample_rate / 1000) and after_samples =
\* floor(after * sample_rate / 1000) + 1, every channel being of that length.
C21_EpochAroundEvent ==
    (eret.op = "add_event" /\ eret.ok) =>
        LET ts == eret.before.timestamps
            N == Len(ts)
            i == eret.event
            before_samples == FloorSamples(eret.before_ms, eret.before.sample_rate)
            after_samples == FloorSamples(eret.after_ms, eret.before.sample_rate) + 1
            first == Max(i - before_samples, 0)
            length == Min(i + after_samples, N) - first
        IN  /\ i \in 0..(N - 1)
            /\ \A j \in 1..N :
                  AbsDiff(ts[i + 1], eret.event_time) <= AbsDiff(ts[j], eret.event_time)
            /\ Len(eret.epoch.timestamps) = length
            /\ eret.epoch.timestamps[i - first + 1] = 0
            /\ Len(eret.epoch.signals) = Len(eret.before.channel_names)
            /\ \A c \in 1..Len(eret.epoch.signals) :
                  /\ Len(eret.epoch.signals[c]) = length
                  /\ \A k \in 1..length :
                        eret.epoch.signals[c][k] = eret.before.signals[c][first + k]
\* An epoch cut short at the end of the container, with a sample before the
\* located one.
C21_Witness ==
    /\ eret.op = "add_event" /\ eret.ok
    /\ eret.event = 1 /\ eret.before_ms = 300 /\ eret.after_ms = 300
    /\ Len(eret.epoch.timestamps) = 2
    /\ Len(eret.before.channel_names) = 2

NoDuplicates(s) == \A i, j \in 1..Len(s) : s[i] = s[j] => i = j

\* C22: add_event registers its event at most once, and a second add_event
\* for the same event time leaves `events` as it is; get_all_events returns
\* one epoch for each registered event, in the order of registration, and
\* leaves `events` as it was.
C22_EventsRegisteredOnce ==
    /\ NoDuplicates(eeg.events)
    /\ (eret.op = "add_event" /\ eret.ok) =>
          /\ InSeq(eret.before.timestamps[eret.event + 1], eeg.events)
          /\ \A k \in 1..Len(eret.before.events) : eeg.events[k] = eret.before.events[k]
          /\ Len(eeg.events) <= Len(eret.before.events) + 1
          /\ add_event(eeg, eret.event_time, eret.before_ms, eret.after_ms).self = eeg
    /\ (eret.op = "get_all_events") =>
          /\ eret.ok
          /\ eeg = eret.before
          /\ Len(eret.epochs) = Len(eeg.events)
          /\ \A k \in 1..Len(eret.epochs) :
                \E i \in 1..Len(eeg.timestamps) :
                    /\ eeg.timestamps[i] = eeg.events[k]
                    /\ eret.epochs[k] =
                          add_event(eeg, eeg.timestamps[i], eret.before_ms,
                                    eret.after_ms).epoch
\* Two events handed back in the order they were registered in, which is not
\* the order of their time stamps.
C22_Witness ==
    /\ eret.op = "get_all_events"
    /\ Len(eret.epochs) = 2
    /\ eeg.events[1] > eeg.events[2]
    /\ eret.epochs[1] # eret.epochs[2]

\* The averaging calls, and what they were made on: the container, or the
\* epoch as it was before the call (kept in epochs) and after it (in epoch).
OnContainer == eret.op \in {"average_ch", "average_sub_ch"}
OnEpoch == eret.op \in {"epoch.average_ch", "epoch.average_sub_ch"}
Original == IF OnContainer THEN eret.before ELSE eret.epochs[1]
\* The groups asked for: all channels as one group when none is.
Groups == IF eret.selection = <<>> THEN <<Original.channel_names>> ELSE eret.selection
\* The sum of the k-th items of the channels of a group, in integers.
RECURSIVE GroupSum(_, _, _)
GroupSum(c, group, k) ==
    IF group = <<>> THEN 0
    ELSE GetItem(c, Head(group))[k] + GroupSum(c, Tail(group), k)

\* C23: average_ch and average_sub_ch return a new container or epoch with
\* one channel for each group asked for (all channels as one group when none
\* is), in the order asked for, each the mean, item by item, of the channels
\* of its group and as long as the source; the source's channel names,
\* signals and time stamps are as they were.
C23_AveragingMeansAndFrame ==
    ((OnContainer \/ OnEpoch) /\ eret.ok) =>
        /\ Len(eret.out.channel_names) = Len(Groups)
        /\ Len(eret.out.signals) = Len(Groups)
        /\ eret.out.timestamps = Original.timestamps
        /\ \A g \in 1..Len(Groups) :
              /\ eret.out.channel_names[g] = Join(Groups[g])
              /\ Len(eret.out.signals[g]) = Len(Original.timestamps)
              /\ \A k \in 1..Len(Original.timestamps) :
                    FEq(eret.out.signals[g][k],
                        Rat(GroupSum(Original, Groups[g], k), Len(Groups[g])))
        /\ OnContainer => eeg = eret.before
        /\ OnEpoch => eret.epoch = eret.epochs[1] /\ eeg = eret.before
\* Two groups of a container of two channels that differ, the second group's
\* mean being one half.
C23_Witness ==
    /\ eret.op = "average_sub_ch" /\ eret.ok
    /\ Len(eret.selection) = 2
    /\ Len(eret.before.timestamps) = 2
    /\ \E k \in 1..2 : FEq(eret.out.signals[2][k], Rat(1, 2))
    /\ eret.out.channel_names = <<"Ch2", "Ch1Ch2">>
\* The same on an epoch.
C23_WitnessEpoch ==
    /\ eret.op = "epoch.average_ch" /\ eret.ok
    /\ eret.selection = << <<"Ch2", "Ch1">> >>
    /\ \E k \in 1..Len(eret.out.timestamps) : FEq(eret.out.signals[1][k], Rat(1, 2))

\* C24: averaging a single channel is the identity: for a container or an
\* epoch of one channel, average_ch() and average_sub_ch(that channel)
\* return an object equal (==) to the original, whatever samples, time
\* stamps and registered events the original holds.
C24_SingleChannelIdentity ==
    ((OnContainer \/ OnEpoch) /\ eret.ok /\ Len(Original.channel_names) = 1
        /\ eret.selection \in {<<>>, <<Original.channel_names>>}) => eret.eq
\* The part of it that holds: the epochs, and the containers without events.
C24_IdentityWithoutEvents ==
    ((OnContainer \/ OnEpoch) /\ eret.ok /\ Len(Original.channel_names) = 1
        /\ eret.selection \in {<<>>, <<Original.channel_names>>}
        /\ (OnContainer => eret.before.events = <<>>)) => eret.eq

\* C25: save_signals and then load_signals into a fresh container of the same
\* channel names and sample rate gives a container equal to the one saved:
\* its time stamps, every channel's samples and its events in their order.
C25_SaveLoadRoundTrip == eret.op = "save_load" => eret.eq
\* What does come back: the time stamps and the samples, always; and the
\* events when each was registered after all earlier ones in time and no two
\* samples share an event's time stamp.
C25_SamplesComeBack ==
    eret.op = "save_load" =>
        /\ eret.out.channel_names = eret.before.channel_names
        /\ SameNumbers(eret.out.timestamps, Floats(eret.before.timestamps))
        /\ \A c \in 1..Len(eret.before.signals) :
              SameNumbers(eret.out.signals[c], Floats(eret.before.signals[c]))
        /\ ((/\ \A i, j \in 1..Len(eret.before.events) :
                   i < j => eret.before.events[i] < eret.before.events[j]
             /\ \A i, j \in 1..Len(eret.before.timestamps) :
                   (i # j /\ InSeq(eret.before.timestamps[i], eret.before.events))
                       => eret.before.timestamps[i] # eret.before.timestamps[j])
            => eret.eq)

\* ---------------------------------------------------------------------
\* benchmarking.metrics in use: rates computed on one array of scores.

CallTPR(t) ==
    /\ mret' = [op |-> "TPR", t |-> t, rate |-> TPR(scores, t)]
    /\ UNCHANGED <<outsideBench, scores>>
CallFPR(t) ==
    /\ mret' = [op |-> "FPR", t |-> t, rate |-> FPR(scores, t)]
    /\ UNCHANGED <<outsideBench, scores>>
CallFNR(t) ==
    /\ mret' = [op |-> "FNR", t |-> t, rate |-> FNR(scores, t)]
    /\ UNCHANGED <<outsideBench, scores>>
CallTNR(t) ==
    /\ mret' = [op |-> "TNR", t |-> t, rate |-> TNR(scores, t)]
    /\ UNCHANGED <<outsideBench, scores>>

NextBench ==
    \/ \E t \in RocThresholds : CallTPR(t)
    \/ \E t \in RocThresholds : CallFPR(t)
    \/ \E t \in RocThresholds : CallFNR(t)
    \/ \E t \in RocThresholds : CallTNR(t)

InitBench ==
    /\ EngineStarts({<<>>}) /\ BrowserAbsent /\ StoreAbsent /\ HolderAbsent
    /\ BenchStarts /\ DrainAbsent /\ ScoringAbsent /\ RelayAbsent

SpecBench == InitBench /\ [][NextBench]_vars

\* The rate that counts the scores the rate just computed did not count.
OtherRate ==
    CASE mret.op = "TPR" -> FNR(scores, mret.t)
      [] mret.op = "FNR" -> TPR(scores, mret.t)
      [] mret.op = "FPR" -> TNR(scores, mret.t)
      [] mret.op = "TNR" -> FPR(scores, mret.t)
Counted(a, t) == CountGe(a, t, Len(a)) + CountLt(a, t, Len(a))

\* C26: for every threshold t and every non-empty array of scores the
\* accepted scores (score >= t) and the rejected ones (all the others)
\* partition the array, each score counted once, so that TPR(p, t) +
\* FNR(p, t) = 1 and FPR(n, t) + TNR(n, t) = 1.
C26_RatesSumToOne ==
    mret.op # "none" =>
        /\ Counted(scores, mret.t) = Len(scores)
        /\ FEq(FAdd(mret.rate, OtherRate), Rat(1, 1))
\* It holds for the arrays of numbers: what is missing from the sum is the
\* share of the scores that are NaN.
C26_SumWithoutNaN ==
    mret.op # "none" =>
        LET nans == Cardinality({i \in 1..Len(scores) : IsNaN(scores[i])})
        IN  /\ Counted(scores, mret.t) = Len(scores) - nans
            /\ FEq(FAdd(mret.rate, OtherRate), Rat(Len(scores) - nans, Len(scores)))

\* C27: authenticate returns true without the acquisition procedure only
\* when, at that call, continuous_auth was asked for, the device is
\* connected, the identity is enrolled, last_auth > removal_time_stamp, the
\* device reports worn and the identity is last_id; and last_id is the
\* identity of the most recent authenticate or enroll that succeeded: such a
\* call leaves its identity there, and nothing else puts an identity there.
C27_FastPathOnlyInSession ==
    [][/\ (pc = "idle" /\ AcceptedWithoutAcquisition) =>
             \A id \in Idents, cont \in BOOLEAN, conn \in IsConnectedAnswers :
                 Authenticate(id, cont, conn)
                    => /\ cont /\ conn /\ InDb(database, id)
                       /\ last_auth > removal_time_stamp
                       /\ worn /\ id = last_id
       /\ (ret'.ok /\ ret'.op \in {"authenticate", "enroll"}) => last_id' = ret'.id
       /\ last_id' # last_id =>
             \/ last_id' = None
             \/ ret'.ok /\ ret'.op \in {"authenticate", "enroll"}]_vars
\* Accepted without acquisition right after an enroll of the same identity.
C27_Witness ==
    /\ ret.op = "authenticate" /\ ret.ok /\ ret.fast /\ ret.why = "continuous"
    /\ ret.prev = [op |-> "enroll", id |-> ret.id]

\* One pass through the body of the poll loop.
PollIteration == PollDeviceRemoved \/ PollTaskAborted \/ PollFetch

\* C28: in the poll loop, when removal_time_stamp is later than the start of
\* the acquisition or the device reports not worn, the engine stops the
\* stream and the task and the enroll, authenticate or identification under
\* way fails: the pass through the loop ends the call, no sample is fetched
\* and no epochs are cut.
C28_RemovalEndsAcquisition ==
    [][(pc = "poll" /\ InTime /\ (removal_time_stamp > start \/ ~worn))
          => /\ ENABLED PollDeviceRemoved
             /\ PollIteration =>
                   /\ pc' = "idle"
                   /\ ret'.op = call.op /\ ret'.why = "removed"
                   /\ ~ret'.ok /\ ~ret'.exc /\ ~ret'.stream
                   /\ timestamps' = <<>> /\ events' = <<>>]_vars
\* An identification failed on a device that was taken off without a removal
\* being stamped.
C28_Witness ==
    /\ ret.op = "identification" /\ ret.why = "removed"
    /\ ~worn /\ removal_time_stamp = 0

\* C29: every exit from the acquisition procedure - normal completion, device
\* removal or task abort - leaves the device stream stopped: the
\* start_stream is matched by a stop_stream before enroll, authenticate or
\* identification returns.
C29_StreamStoppedOnReturn ==
    (ret.op # "none" /\ ~ret.fast) => ~ret.stream
\* The exits that do stop it: all but the abort.
C29_StoppedUnlessAborted ==
    (ret.op # "none" /\ ~ret.fast) => (ret.stream <=> ret.why = "aborted")

\* ---------------------------------------------------------------------
\* __perform_task_rec after the poll loop, for each way the loop can end.

\* Lines 587-612: the timings are drained, an epoch is cut for each of those
\* kept and the list of epochs is trimmed; aliveFor is the number of fetches
\* after which is_alive() answers false. events[0] raises on an empty list.
DrainAndCut(d, exit, aliveFor) ==
    LET stimuli_times == DrainTimings(d.q, d.stop_time, aliveFor)
        cut == EpochsOf(d.timestamps, stimuli_times)
    IN  [d EXCEPT !.exit = exit,
                  !.stimuli_times = stimuli_times,
                  !.events = cut,
                  !.returned = IF cut = <<>> THEN <<>> ELSE TrimTail(cut),
                  !.raised = (cut = <<>>)]
\* The loop ended because time was up; the task is alive throughout the
\* drain, or ends during it.
LoopTimedOut(aliveFor) ==
    /\ drain.exit = "none"
    /\ drain' = DrainAndCut(drain, "timeout", aliveFor)
    /\ UNCHANGED outsideDrain
\* The loop ended because is_alive() answered false.
LoopTaskCompleted ==
    /\ drain.exit = "none"
    /\ drain' = DrainAndCut(drain, "completed", 0)
    /\ UNCHANGED outsideDrain

\* What the identity enrolled has stored before the call: 9 stands for a
\* template of an earlier enrollment.
EnrolledId == "a"
StoredBefore ==
    {<<>>, <<[id |-> "b", templates |-> <<9>>], [id |-> EnrolledId, templates |-> <<9>>]>>}
\* KeyWave.enroll with the epochs __perform_task_rec returned (lines 490-492):
\* the templates are built and added to the database one by one; an
\* exception of __create_templates leaves the call.
EnrollTemplates(mode, db) ==
    /\ drain.exit # "none" /\ ~drain.raised /\ drain.mode = 0
    /\ LET raises == CreateRaises(drain.returned, mode)
           templates == IF raises THEN <<>>
                        ELSE TemplateOrigins(Len(drain.returned), mode)
       IN drain' = [drain EXCEPT !.mode = mode,
                                 !.create_raised = raises,
                                 !.templates = templates,
                                 !.db_before = db,
                                 !.db_after = add_templates(db, EnrolledId, templates)]
    /\ UNCHANGED outsideDrain

NextDrain ==
    \/ \E aliveFor \in 0..MaxTimings : LoopTimedOut(aliveFor)
    \/ LoopTaskCompleted
    \/ \E mode \in TemplateMode, db \in StoredBefore : EnrollTemplates(mode, db)

InitDrain ==
    /\ EngineStarts({<<>>}) /\ BrowserAbsent /\ StoreAbsent /\ HolderAbsent
    /\ BenchAbsent /\ DrainStarts /\ ScoringAbsent /\ RelayAbsent

SpecDrain == InitDrain /\ [][NextDrain]_vars

\* The target timings recorded up to stop_time, in the order of recording.
RECURSIVE TargetsUpTo(_, _)
TargetsUpTo(q, stop_time) ==
    IF q = <<>> THEN <<>>
    ELSE (IF Head(q).is_target /\ Head(q).timestamp <= stop_time
          THEN <<Head(q).timestamp>> ELSE <<>>)
         \o TargetsUpTo(Tail(q), stop_time)

\* C30: after the poll loop has ended, by timeout or because the task
\* completed, the task's timings are drained and every timing marked as a
\* target that occurred before the loop's end gives exactly one epoch, in
\* the order of recording.
C30_EpochForEveryTarget ==
    drain.exit # "none" =>
        /\ drain.stimuli_times = TargetsUpTo(drain.q, drain.stop_time)
        /\ Len(drain.events) = Len(drain.stimuli_times)
        /\ \A k \in 1..Len(drain.events) :
              drain.events[k] =
                  EpochLen(drain.timestamps, drain.stimuli_times[k],
                           before_event_time_ms, after_event_time_ms)
\* What is kept is a prefix of these timings, and all of them when the task
\* was alive at every fetch.
C30_PrefixOfTargets ==
    drain.exit # "none" =>
        /\ Len(drain.stimuli_times) <= Len(TargetsUpTo(drain.q, drain.stop_time))
        /\ \A k \in 1..Len(drain.stimuli_times) :
              drain.stimuli_times[k] = TargetsUpTo(drain.q, drain.stop_time)[k]
        /\ Len(drain.events) = Len(drain.stimuli_times)
        /\ drain.exit = "completed" => drain.stimuli_times = <<>>

\* C31: all epochs the acquisition procedure returns have the same length:
\* after the trimming of the tail no two of them differ in length, wherever
\* the stimuli lie in the recording.
C31_ReturnedEpochsSameLength ==
    drain.exit # "none" =>
        \A i, j \in 1..Len(drain.returned) : drain.returned[i] = drain.returned[j]
\* What the trimming does give: a prefix of the epochs cut whose last epoch
\* is as long as its first.
C31_FirstAndLastSameLength ==
    (drain.exit # "none" /\ ~drain.raised) =>
        /\ Len(drain.returned) <= Len(drain.events)
        /\ \A k \in 1..Len(drain.returned) : drain.returned[k] = drain.events[k]
        /\ drain.returned[1] = drain.returned[Len(drain.returned)]

\* C39: when at least one epoch was cut, the trimming ends with at least one
\* epoch left; the fault on an empty list of epochs arises only when no
\* target timing was collected.
C39_TrimmingKeepsAnEpoch ==
    drain.exit # "none" =>
        /\ drain.events # <<>> => (~drain.raised /\ Len(drain.returned) >= 1)
        /\ drain.raised <=> drain.stimuli_times = <<>>
\* Three epochs cut, of which the trimming left the first only.
C39_Witness ==
    /\ drain.exit = "timeout"
    /\ Len(drain.events) = 3 /\ Len(drain.returned) = 1

\* authenticate(id, continuous_auth = true) returning true through the check
\* of the session, without acquisition.
FastPathAccepts ==
    \E id \in Idents, conn \in IsConnectedAnswers :
        Authenticate(id, TRUE, conn) /\ ret'.ok /\ ret'.fast

\* C32: when the device was removed after the end of the recording on which
\* the last successful authenticate or enroll was based, no later
\* authenticate is accepted without acquisition until a new acquisition
\* succeeds; stated for the removal stamped between the end of the poll loop
\* and the stamping of last_auth: in the state such a call has returned to,
\* no authenticate can be accepted without acquisition.
C32_NoFastPathAfterRemoval ==
    (ret.ok /\ ~ret.fast /\ ret.op \in {"authenticate", "enroll"} /\ ret.stamped)
        => ~ENABLED FastPathAccepts
\* A removal stamped once last_auth has been stamped does close the session.
C32_LaterRemovalClosesSession ==
    removal_time_stamp >= last_auth => ~ENABLED FastPathAccepts

\* An authenticate call that went as far as __calculate_similarity.
Compared ==
    ret.op = "authenticate" /\ ret.why \in {"ambiguous", "nan", "below", "accepted"}

\* C33: authenticate(identity) computes the similarity against the templates
\* stored under that identity only, and for an enrolled identity it obtains
\* exactly one similarity result, so that the rejection for "not exactly one
\* similarity" does not occur.
C33_OneSimilarityOfTheIdentity ==
    Compared =>
        /\ Len(ret.sims) = 1
        /\ ret.sims[1].id = ret.id
        /\ ret.why # "ambiguous"
\* For every identity but the empty string the call does so.
C33_OneSimilarityOfNamedIdentity ==
    (Compared /\ ret.id # "") =>
        /\ Len(ret.sims) = 1
        /\ ret.sims[1].id = ret.id
        /\ ret.why # "ambiguous"

StoredFor(db) == get_templates(db, EnrolledId).templates
ExpectedTemplates ==
    LET n == Len(drain.returned)
        t == drain.templates
    IN /\ drain.mode = AverageTemplate => t = <<0>>
       /\ drain.mode = SingleTemplates =>
            (Len(t) = n /\ \A k \in 1..n : t[k] = k)
       /\ drain.mode = AverageAndSingleTemplates =>
            (Len(t) = n + 1 /\ t[1] = 0 /\ \A k \in 1..n : t[k + 1] = k)
       /\ Len(t) = TemplateCount(n, drain.mode)
       /\ StoredFor(drain.db_after) = StoredFor(drain.db_before) \o t
       /\ \A i \in 1..Len(drain.db_before) : drain.db_after[i].id = drain.db_before[i].id
       /\ StoredFor(drain.db_after) # <<>>

\* C35: from n >= 1 acquired epochs the construction yields exactly 1
\* template in AverageTemplate mode, exactly n in SingleTemplates mode (one
\* for each epoch, in the order of the epochs) and exactly n+1 in
\* AverageAndSingleTemplates mode, the one of the average first; an enroll
\* appends exactly these, in this order, after the templates the identity
\* has stored.
C35_TemplatesByMode ==
    drain.mode # 0 => (~drain.create_raised /\ ExpectedTemplates)
\* It does so whenever the epochs acquired are of one length.
C35_TemplatesOfEqualEpochs ==
    (drain.mode # 0
        /\ \A i, j \in 1..Len(drain.returned) : drain.returned[i] = drain.returned[j])
    => (~drain.create_raised /\ ExpectedTemplates)

\* --------------------------------------------- __calculate_similarity alone
\* KeyWave.__calculate_similarity(templates, similarity_mode, id) on a
\* database.
CalculateSimilarity ==
    /\ ~sret.called
    /\ sret' = [sret EXCEPT
                  !.called = TRUE,
                  !.global_sims = calculate_similarity(sret.db, sret.templates,
                                                       sret.similarity_mode, sret.id)]
    /\ UNCHANGED outsideScoring

NextScoring == CalculateSimilarity

InitScoring ==
    /\ EngineStarts({<<>>}) /\ BrowserAbsent /\ StoreAbsent /\ HolderAbsent
    /\ BenchAbsent /\ DrainAbsent /\ ScoringStarts /\ RelayAbsent

SpecScoring == InitScoring /\ [][NextScoring]_vars

\* The values of the metric on the pairs (stored[i], fresh[j]), summed pair
\* by pair.
RECURSIVE SumOfPairs(_, _, _, _)
SumOfPairs(stored, fresh, i, j) ==
    IF i > Len(stored) THEN Rat(0, 1)
    ELSE IF j > Len(fresh) THEN SumOfPairs(stored, fresh, i + 1, 1)
    ELSE FAdd(similarity_metric(stored[i], fresh[j]),
              SumOfPairs(stored, fresh, i, j + 1))
SameFloat(x, y) == (IsNaN(x) /\ IsNaN(y)) \/ FEq(x, y)
\* sim is the mean of the metric over all pairs, or a value on one of the
\* pairs that none of the others is greater than.
ScoreOfAllPairs(sim, stored, fresh, smode) ==
    LET pairs == (1..Len(stored)) \X (1..Len(fresh))
        value(p) == similarity_metric(stored[p[1]], fresh[p[2]])
    IN IF smode = AverageSimilarity
       THEN SameFloat(sim, FDivInt(SumOfPairs(stored, fresh, 1, 1),
                                   Len(stored) * Len(fresh)))
       ELSE /\ \E p \in pairs : sim = value(p)
            /\ \A p \in pairs : ~FLt(sim, value(p))
\* The identities the call compares against: all of them when id is None
\* or empty, else the one named; of these, the ones with templates stored.
Candidates(db, id) ==
    {c \in {db[i].id : i \in 1..Len(db)} :
        /\ Falsy(id) \/ c = id
        /\ get_templates(db, c).templates # <<>>}

RejectedAfterAcquisition ==
    /\ pc = "process" /\ call.op = "authenticate" /\ pc' = "idle"
    /\ ret'.why \in {"ambiguous", "nan", "below"}

\* C37: an authenticate call whose acquisition succeeds and whose decision is
\* a rejection leaves last_id and last_auth unchanged, so that a session
\* established before the attempt is still valid after it.
C37_RejectionKeepsSession ==
    [][RejectedAfterAcquisition =>
        /\ ~ret'.ok
        /\ last_id' = last_id /\ last_auth' = last_auth
        /\ (last_auth > removal_time_stamp) => (last_auth' > removal_time_stamp')]_vars
\* A rejection for a similarity below the threshold, with a session open.
C37_Witness ==
    /\ ret.op = "authenticate" /\ ret.why = "below" /\ ~ret.ok
    /\ last_id = "a" /\ last_auth > removal_time_stamp

\* An enroll call returns false: the device is not connected, or the
\* acquisition failed.
EnrollReturnsFalse ==
    /\ pc' = "idle" /\ ret'.op = "enroll" /\ ~ret'.ok /\ ~ret'.exc
    /\ ret' # ret

\* C38: an enroll call that returns false leaves the template database
\* unchanged, no template being added for any identity, and leaves last_id
\* and last_auth unchanged.
C38_FailedEnrollChangesNothing ==
    [][EnrollReturnsFalse =>
        /\ ret'.why \in {"no_device", "removed", "aborted", "no_events"}
        /\ database' = database
        /\ last_id' = last_id /\ last_auth' = last_auth]_vars
\* An enroll whose acquisition failed, with templates stored and a session
\* open.
C38_Witness ==
    /\ ret.op = "enroll" /\ ~ret.ok /\ ~ret.fast /\ ret.why = "removed"
    /\ database # <<>> /\ last_id = "a" /\ last_auth > 0
\* An enroll refused for want of a device, likewise.
C38_WitnessNoDevice ==
    /\ ret.op = "enroll" /\ ~ret.ok /\ ret.why = "no_device"
    /\ database # <<>> /\ last_id = "a" /\ last_auth > 0

\* ------------------------------------ WebHandler.index and BrowserWorker.run
\* WebHandler.index, lines 17-19: the message goes into the pipe. cherrypy
\* serves requests from a pool of threads, so index can be entered while
\* another request is in it.
IndexSends ==
    /\ relay.sent < MaxRelayed
    /\ relay' = [relay EXCEPT !.sent = @ + 1,
                              !.to_worker = Append(@, relay.sent + 1),
                              !.waiting = @ \cup {relay.sent + 1}]
    /\ UNCHANGED outsideRelay
\* Lines 21-27: the time is up and poll finds nothing: "{}" is returned.
IndexTimesOut(r) ==
    /\ r \in relay.waiting
    /\ relay.to_handler = <<>>
    /\ relay' = [relay EXCEPT !.waiting = @ \ {r},
                              !.response[r] = EmptyResponse]
    /\ UNCHANGED outsideRelay
\* Lines 23-29: poll finds data in the pipe; recv takes what is first in it.
IndexReturns(r) ==
    /\ r \in relay.waiting
    /\ relay.to_handler # <<>>
    /\ relay' = [relay EXCEPT !.waiting = @ \ {r},
                              !.response[r] = Resp(Head(relay.to_handler)),
                              !.to_handler = Tail(@)]
    /\ UNCHANGED outsideRelay
\* BrowserWorker.run, lines 51-56: a message is there and is received.
WorkerReceives ==
    /\ relay.in_hand = 0
    /\ relay.to_worker # <<>>
    /\ relay' = [relay EXCEPT !.in_hand = Head(relay.to_worker),
                              !.to_worker = Tail(@)]
    /\ UNCHANGED outsideRelay
\* process_msg: every path ends in one outside.send of the reply.
WorkerReplies ==
    /\ relay.in_hand # 0
    /\ relay' = [relay EXCEPT !.in_hand = 0,
                              !.to_handler = Append(@, relay.in_hand)]
    /\ UNCHANGED outsideRelay

NextRelay ==
    \/ IndexSends
    \/ \E r \in 1..MaxRelayed : IndexTimesOut(r)
    \/ \E r \in 1..MaxRelayed : IndexReturns(r)
    \/ WorkerReceives
    \/ WorkerReplies

InitRelay ==
    /\ EngineStarts({<<>>}) /\ BrowserAbsent /\ StoreAbsent /\ HolderAbsent
    /\ BenchAbsent /\ DrainAbsent /\ ScoringAbsent /\ RelayStarts

SpecRelay == InitRelay /\ [][NextRelay]_vars

\* C40: the response WebHandler.index returns for a request is the reply the
\* worker produced for that same request: a reply that arrives after the
\* handler has timed out, or while another request is in flight, is never
\* delivered as the answer to a different request.
C40_ReplyOfSameRequest ==
    \A r \in 1..MaxRelayed :
        relay.response[r] \in {NotReturned, EmptyResponse, Resp(r)}
\* What the pipe does give: a reply is returned to one request at most, and
\* it is one the worker produced for a request made.
C40_ReplyReturnedOnce ==
    \A r, q \in 1..MaxRelayed :
        /\ (relay.response[r] = relay.response[q] /\ relay.response[r].kind = "resp")
                => r = q
        /\ relay.response[r].of <= relay.sent

\* A call is in the poll loop of __perform_task_rec, and the clock of the
\* model reaches the end of its timeout_s.
InPollLoop == pc = "poll" /\ start + timeout_s <= MaxTime

====
